---------------------------- MODULE Spec2Model ----------------------------
(***************************************************************************)
(* A model of the text-edit pipeline of the editz PDF editor.              *)
(*                                                                         *)
(* One of the two viewers is mounted on a document (`viewer`):             *)
(*                                                                         *)
(*   PDFViewer        src/src/components/PDFViewer.tsx: pdf.js extraction  *)
(*                    into an overlay, the in-memory textEdits map and the *)
(*                    rasterise-and-redraw export;                         *)
(*   ModernPDFViewer  src/unnamed/part_001 under the Editor page and the   *)
(*                    usePDFEditor hook (src/unnamed/part_003): the text   *)
(*                    items of the upload response, edits sent to the      *)
(*                    backend one request at a time.                       *)
(*                                                                         *)
(*   usePDFEditor     src/src/hooks/usePDFEditor.ts with the services of   *)
(*                    src/src/services/pdfService.ts and the Node routes   *)
(*                    of src/backend/routes/pdf.js: edits and extractions  *)
(*                    delegated to Python subprocesses, files on disk.     *)
(*                                                                         *)
(* Scales are kept in tenths (10 is the scale 1.0), positions in tenths of *)
(* a PDF unit, so that all arithmetic is on integers.                      *)
(***************************************************************************)
EXTENDS Integers, Sequences, FiniteSets, TLC

(***************************************************************************)
(* Bounds of the model.                                                    *)
(***************************************************************************)
NumPages == 2
MaxChanges == 2
MaxEditedItems == 1
MaxPending == 1
PageW == 6
PageH == 8

(***************************************************************************)
(* Program constants.                                                      *)
(***************************************************************************)
MinScale == 5
MaxScale == 30
ZoomStep == 2
DefaultScale == 10

\* JavaScript's undefined, as a string no text of the model equals.
Undefined == "<undefined>"

VARIABLES
    viewer,             \* the component that is mounted
    pdfRuns,            \* the uploaded PDF: per page, the raw text runs of its content
    pages,              \* props.document.pages (owned by the parent)
    loading,            \* viewer state `loading`
    pdfDoc,             \* viewer state `pdfDoc` (TRUE once a proxy is set)
    currentPageNumber,  \* viewer state
    totalPages,         \* viewer state
    isEditMode,         \* viewer state
    renders,            \* renderCurrentPage() calls awaiting getPage(), as their closures
    renderTasks,        \* the tasks page.render() returned whose promise is not settled
    currentRenderTask,  \* ModernPDFViewer's ref: {} is null, {t} the task of the call t
    reported,           \* the errors this step passed to console.error, by name
    textLayerItems,     \* PDFViewer state
    editingText,        \* PDFViewer state: {} is null, {e} is the object e
    textEdits,          \* PDFViewer state: the entries of the nested object
    download,           \* PDFViewer: the file handed to the browser by this step
    extractedAt,        \* history: the page, scale and rotation textLayerItems was extracted at
    textItems,          \* ModernPDFViewer state
    editingItem,        \* ModernPDFViewer state: {} is null, {e} is the object e
    pdfData,            \* usePDFEditor: currentDocument.pdfData, per page the runs' texts
    editedTexts,        \* usePDFEditor: the entries of every page's editedTexts
    requests,           \* usePDFEditor: editPageText() calls awaiting the backend
    hasChanges,         \* usePDFEditor: currentDocument.hasChanges
    backendCalls,       \* Node backend: requests of the hook that await a response
    outputDir,          \* Node backend: the files of backend/output
    textData,           \* usePDFEditor.ts: the pages currentDocument.textData has
    blob,               \* usePDFEditor.ts: the file downloadEditedPDF saved last
    isProcessing,       \* usePDFEditor.ts: hook state
    isExtracting,       \* usePDFEditor.ts: hook state
    lastExit,           \* history: how the subprocess of the last response ended
    commitLog,          \* history: per key, the last text committed and how often
    nUpdates,           \* history: page updates (zoom, rotate, delete) so far
    lastOp,             \* history: the handler that ran last
    wasFocused,         \* history: an item was focused when that handler ran
    arg,                \* a function of the extraction or of the edit route: its input
    result              \* the same: {} before the call, {r} when it returned r

\* the state only PDFViewer has, and the state only ModernPDFViewer and its hook have
viewerOnly == <<textLayerItems, editingText, textEdits, download, extractedAt>>
modernOnly == <<textItems, editingItem, pdfData, editedTexts, requests>>

\* the render tasks and the ref to the current one
tasks == <<renderTasks, currentRenderTask>>

\* the state only the Node backend and the hook of usePDFEditor.ts have
serverOnly == <<backendCalls, outputDir, textData, blob, lastExit>>

\* the busy flags of the hook of usePDFEditor.ts
busy == <<isProcessing, isExtracting>>

vars == <<viewer, pdfRuns, pages, loading, pdfDoc, currentPageNumber, totalPages,
          isEditMode, renders, tasks, reported, viewerOnly, modernOnly, hasChanges,
          serverOnly, busy,
          commitLog, nUpdates, lastOp, wasFocused, arg, result>>

(***************************************************************************)
(* Texts.  A run's str is "A", "B" or a blank; the user types one of Typed.*)
(***************************************************************************)
PageContents == { <<"A", "B">>, <<"A", " ", "B">> }
Typed == {"", "X"}

\* String.prototype.trim on the texts of the model.
Trim(s) == IF s = " " THEN "" ELSE s

\* JavaScript truthiness of a string-or-undefined value.
Truthy(s) == s # Undefined /\ s # ""

\* One raw run of a page's content stream: the k-th (1-based) text-showing
\* operation, one line below the previous one.
RawRun(str, k) ==
    [str |-> str, tx |-> 1, ty |-> PageH - 2 * k, width |-> 2, height |-> 1]

RawRuns(content) == [k \in 1..Len(content) |-> RawRun(content[k], k)]

\* The documents PDFViewer is opened on: the first page is any of
\* PageContents, the later pages have two runs.
Documents ==
    {[p \in 1..NumPages |-> RawRuns(IF p = 1 THEN c ELSE <<"B", "A">>)] :
        c \in PageContents}

\* The document ModernPDFViewer is opened on: the first page repeats a text.
ModernDocuments ==
    {[p \in 1..NumPages |-> RawRuns(IF p = 1 THEN <<"A", "A">> ELSE <<"B", "A">>)]}

(***************************************************************************)
(* props.document.pages                                                    *)
(***************************************************************************)
\* document.pages.find(p => p.pageNumber === n), as a set of at most one page
PageData(pgs, n) ==
    IF n \in DOMAIN pgs /\ pgs[n].present THEN {pgs[n]} ELSE {}

\* pdfPage?.scale || 1.0
ScaleOf(pgs, n) ==
    IF PageData(pgs, n) = {} THEN DefaultScale ELSE pgs[n].scale

\* pdfPage?.rotation || 0
RotationOf(pgs, n) ==
    IF PageData(pgs, n) = {} THEN 0 ELSE pgs[n].rotation

\* document?.pages?.find(p => p.pageNumber === n)?.scale   (0 stands for undefined)
ScaleDep(pgs, n) ==
    IF PageData(pgs, n) = {} THEN 0 ELSE pgs[n].scale

(***************************************************************************)
(* Extraction: renderTextLayer                                             *)
(***************************************************************************)
\* page.getViewport({scale, rotation}).height, in tenths
ViewportHeight(scale, rotation) ==
    IF rotation \in {90, 270} THEN PageW * scale ELSE PageH * scale

\* .filter(item => item.str && item.str.trim().length > 0)
KeepRun(item) == item.str # "" /\ Trim(item.str) # ""

\* the object built by .map((item, index) => ...)
TextItem(pageNum, item, index, vh) ==
    [id      |-> <<pageNum, index>>,
     content |-> item.str,
     x       |-> 10 * item.tx,
     y       |-> vh - 10 * item.ty - 10 * item.height,
     width   |-> 10 * item.width,
     height  |-> 10 * item.height]

ExtractTextItems(pageNum, scale, rotation) ==
    LET kept == SelectSeq(pdfRuns[pageNum], KeepRun)
        vh   == ViewportHeight(scale, rotation)
    IN  [k \in 1..Len(kept) |-> TextItem(pageNum, kept[k], k - 1, vh)]

(***************************************************************************)
(* The textEdits object {[pageNumber]: {[textId]: string}} as the set of   *)
(* its entries [page, id, text].                                           *)
(***************************************************************************)
\* textEdits[pageNum]
PageEdits(edits, pageNum) == {e \in edits : e.page = pageNum}

\* textEdits[pageNum]?.[textId]
EditOf(edits, pageNum, textId) ==
    LET hit == {e \in edits : e.page = pageNum /\ e.id = textId}
    IN  IF hit = {} THEN Undefined ELSE (CHOOSE e \in hit : TRUE).text

\* SetEdit with the new entry added beside the old one of the same key
SetEditAppend(edits, pageNum, textId, newContent) ==
    edits \cup {[page |-> pageNum, id |-> textId, text |-> newContent]}

\* {...prevEdits, [page]: {...(prevEdits[page] || {}), [textId]: newContent}}
SetEdit(edits, pageNum, textId, newContent) ==
    {e \in edits : ~(e.page = pageNum /\ e.id = textId)}
        \cup {[page |-> pageNum, id |-> textId, text |-> newContent]}

(***************************************************************************)
(* History of commits: per key the last committed text and the count.      *)
(***************************************************************************)
LogCommit(log, pageNum, textId, newContent) ==
    LET old == {c \in log : c.page = pageNum /\ c.id = textId}
        n   == IF old = {} THEN 0 ELSE (CHOOSE c \in old : TRUE).count
    IN  (log \ old) \cup
        {[page |-> pageNum, id |-> textId, text |-> newContent, count |-> n + 1]}

Commits(log) ==
    LET RECURSIVE Sum(_)
        Sum(S) == IF S = {} THEN 0
                  ELSE LET c == CHOOSE c \in S : TRUE IN c.count + Sum(S \ {c})
    IN  Sum(log)

(***************************************************************************)
(* The usePDFEditor hook of the Editor page (src/unnamed/part_003).        *)
(***************************************************************************)
\* text_items of the upload response: one item per run, each with the
\* metadata key the backend addresses the run by
UploadTextItems(runs) ==
    [p \in DOMAIN runs |->
        [k \in 1..Len(runs[p]) |->
            [page |-> p, text |-> runs[p][k].str, metadata_key |-> <<p, k>>]]]

\* uploadDocument, lines 170-203: textDataByPage
TextDataByPage(runs) ==
    LET items == UploadTextItems(runs)
    IN  [p \in DOMAIN items |->
            [k \in 1..Len(items[p]) |->
                [text        |-> items[p][k].text,
                 index       |-> {k - 1},     \* textDataByPage[pageNum].length
                 metadataKey |-> items[p][k].metadata_key]]]

\* currentDocument.textData: set at upload and by no other operation
TextData == TextDataByPage(pdfRuns)

\* loadPageText, lines 260-270: the page's items are there since the upload
LoadPageText(pageNumber) ==
    IF pageNumber \in DOMAIN TextData THEN TextData[pageNumber] ELSE <<>>

\* pdf_data of the upload response: the texts of the runs of every page
UploadPdfData(runs) ==
    [p \in DOMAIN runs |-> [k \in 1..Len(runs[p]) |-> runs[p][k].str]]

\* the backend's edit: the run the metadata key names gets the new text
BackendEditText(pdf, metadata_key, new_text) ==
    [pdf EXCEPT ![metadata_key[1]][metadata_key[2]] = new_text]

\* FindTextItem that always looks the item up by its text
FindTextItemByText(pageNumber, oldText, textIndex) ==
    LET pageTextItems == IF pageNumber \in DOMAIN TextDataByPage(pdfRuns)
                         THEN TextDataByPage(pdfRuns)[pageNumber] ELSE <<>>
        hit == {k \in DOMAIN pageTextItems : pageTextItems[k].text = oldText}
    IN  IF hit = {} THEN {}
        ELSE {pageTextItems[CHOOSE k \in hit : \A j \in hit : k <= j]}

\* An optional number (an item's index, the textIndex argument) is the set of
\* its value: {} is undefined.
\* editPageText, lines 329-332: the item the edit is addressed to, as a set of
\* at most one item
FindTextItem(pageNumber, oldText, textIndex) ==
    LET pageTextItems == LoadPageText(pageNumber)
    IN  IF textIndex # {}
        THEN {pageTextItems[i + 1] : i \in {j \in textIndex : j + 1 \in DOMAIN pageTextItems}}
        ELSE LET hit == {k \in DOMAIN pageTextItems : pageTextItems[k].text = oldText}
             IN  IF hit = {} THEN {}
                 ELSE {pageTextItems[CHOOSE k \in hit : \A j \in hit : k <= j]}

\* [textIndex || 0], line 391
EditedTextsKey(textIndex) ==
    IF textIndex = {} \/ textIndex = {0} THEN 0 ELSE CHOOSE i \in textIndex : TRUE

(***************************************************************************)
(* React effects of the viewers.  A handler's state updates are committed  *)
(* together; the effects whose dependencies changed then run in the new    *)
(* render's closure.                                                       *)
(***************************************************************************)
\* the closure a renderCurrentPage() call reads after its first await; only
\* PDFViewer's renderCurrentPage goes on to renderTextLayer (line 142)
Closure(pgs, cur, edit) ==
    [page |-> cur, editMode |-> edit /\ viewer = "PDFViewer",
     scale |-> ScaleOf(pgs, cur), rotation |-> RotationOf(pgs, cur)]

\* renderCurrentPage's guard, line 94, for a call made while the canvas is
\* mounted: the call returns at once when it fails
CanRender(pdf, cur, total) ==
    pdf /\ cur >= 1 /\ cur <= total

\* The effects at lines 35-62, after a commit that takes the state to
\* (pgs, pdf, cur, total, edit); docChanged says props.document is a new object.
\* `extra` are renderCurrentPage() calls the handler itself made.
RunEffects(docChanged, pgs, pdf, cur, total, edit, extra) ==
    LET pageEffect == (pdf # pdfDoc \/ cur # currentPageNumber \/ docChanged)
                        /\ pdf /\ cur > 0
        zoomEffect == viewer = "PDFViewer"
                        /\ (edit # isEditMode
                              \/ ScaleDep(pgs, cur) # ScaleDep(pages, currentPageNumber))
                        /\ edit /\ pdf /\ cur > 0 /\ PageData(pgs, cur) # {}
        spawned    == IF (pageEffect \/ zoomEffect)
                           /\ ~loading /\ CanRender(pdf, cur, total)
                      THEN {Closure(pgs, cur, edit)} ELSE {}
    IN  /\ loading' = (loading \/ docChanged)
        /\ renders' = renders \cup spawned \cup extra

\* the operation `op` of the hook of usePDFEditor.ts runs
HookDid(op) ==
    /\ lastOp' = op
    /\ wasFocused' = (editingText # {} \/ editingItem # {})
    /\ reported' = {}
    /\ UNCHANGED <<arg, result>>

\* the handler `op` runs and passes the errors `names` to console.error
DidReport(op, names) ==
    /\ lastOp' = op
    /\ wasFocused' = (editingText # {} \/ editingItem # {})
    /\ reported' = names
    /\ UNCHANGED <<arg, result, busy>>

\* the handler `op` runs and reports no error
Did(op) == DidReport(op, {})

-----------------------------------------------------------------------------
(***************************************************************************)
(* Init: a viewer has been mounted with a document and loadPDF() is in     *)
(* flight.                                                                 *)
(***************************************************************************)
Init ==
    /\ viewer \in {"PDFViewer", "ModernPDFViewer", "usePDFEditor"}
    /\ pdfRuns \in (IF viewer = "PDFViewer" THEN Documents ELSE ModernDocuments)
    /\ pages = [p \in 1..NumPages |->
                    [rotation |-> 0, scale |-> DefaultScale, present |-> TRUE]]
    /\ loading = (viewer # "usePDFEditor")
    /\ pdfDoc = FALSE
    /\ currentPageNumber = 1
    /\ totalPages = 0
    /\ isEditMode = FALSE
    /\ renders = {}
    /\ renderTasks = {}
    /\ currentRenderTask = {}
    /\ reported = {}
    /\ textLayerItems = <<>>
    /\ editingText = {}
    /\ textEdits = {}
    /\ download = {}
    /\ extractedAt = {}
    /\ textItems = <<>>
    /\ editingItem = {}
    /\ pdfData = UploadPdfData(pdfRuns)
    /\ editedTexts = {}
    /\ requests = {}
    /\ hasChanges = FALSE
    /\ backendCalls = {}
    /\ outputDir = {}
    /\ textData = {}
    /\ blob = {}
    /\ isProcessing = FALSE
    /\ isExtracting = FALSE
    /\ lastExit = "none"
    /\ commitLog = {}
    /\ nUpdates = 0
    /\ lastOp = "mount"
    /\ wasFocused = FALSE
    /\ arg = {}
    /\ result = {}

\* the toolbar, the canvas and the overlay are rendered (PDFViewer lines 667-674,
\* ModernPDFViewer lines 299-308)
Shown == ~loading

\* loadPDF, lines 79-89: the continuation after getDocument() resolved
LoadPDFDone ==
    /\ loading
    /\ pdfDoc' = TRUE
    /\ totalPages' = Len(pdfRuns)          \* pdf.numPages
    /\ currentPageNumber' = 1
    \* pdfDoc is a new proxy: the effects at lines 41-52 call renderCurrentPage()
    /\ renders' = renders \cup (IF CanRender(TRUE, 1, Len(pdfRuns))
                                 THEN {Closure(pages, 1, isEditMode)} ELSE {})
    /\ loading' = FALSE
    /\ download' = {}
    \* the spinner had replaced the canvas: the tasks still running draw on
    \* the <canvas> element that was unmounted
    /\ renderTasks' = {[k EXCEPT !.onCanvas = FALSE] : k \in renderTasks}
    /\ Did("loadPDF")
    /\ UNCHANGED <<viewer, currentRenderTask, serverOnly, hasChanges, pdfRuns, pages,
                   isEditMode, textLayerItems, editingText,
                   textEdits, extractedAt, modernOnly, commitLog, nUpdates>>

\* the task page.render(renderContext) returns to the call with closure t
RenderTask(t) ==
    [page |-> t.page, editMode |-> t.editMode, scale |-> t.scale,
     rotation |-> t.rotation, onCanvas |-> TRUE]

\* the call a task was made by
CallOf(k) ==
    [page |-> k.page, editMode |-> k.editMode, scale |-> k.scale,
     rotation |-> k.rotation]

\* pdf.js: the mounted canvas is in use by a running task, so that render()
\* refuses a second task on it ("Cannot use the same canvas during multiple
\* render() operations")
CanvasInUse == \E k \in renderTasks : k.onCanvas

\* currentRenderTask.current.cancel() inside try/catch (ModernPDFViewer lines
\* 153-160, 71-78): the running tasks the ref refers to; on a settled task
\* cancel() does nothing and what it throws is caught
Cancelled(ts, ref) == {k \in ts : CallOf(k) \in ref}

\* ReportOf that logs every rejection
ReportOfEvery(v, name) == {name}

\* what the catch blocks pass to console.error: PDFViewer lines 147-149 every
\* error, ModernPDFViewer lines 169-184 every error but a cancellation
ReportOf(v, name) ==
    IF v = "PDFViewer" THEN {name}
    ELSE IF name = "RenderingCancelledException" THEN {} ELSE {name}

\* what the calls whose tasks were cancelled report: their promises are
\* rejected with a RenderingCancelledException
ReportCancelled(cancelled) ==
    IF cancelled = {} THEN {} ELSE ReportOf(viewer, "RenderingCancelledException")

\* renderCurrentPage resumed from getPage() with the canvas mounted and got to
\* page.render(): PDFViewer lines 97-139, ModernPDFViewer lines 113-164.
\* PDFViewer's task is refused when the canvas is in use and the catch logs
\* the error; ModernPDFViewer cancels the task its ref refers to, whose call
\* returns at line 172.
RenderStart(t) ==
    /\ t \in renders
    /\ viewer # "unmounted"
    /\ renders' = renders \ {t}
    /\ IF viewer = "PDFViewer"
       THEN /\ renderTasks' = IF CanvasInUse THEN renderTasks
                              ELSE renderTasks \cup {RenderTask(t)}
            /\ currentRenderTask' = currentRenderTask
            /\ IF CanvasInUse
               THEN DidReport("renderRefused", ReportOf(viewer, "Error"))
               ELSE Did("renderStart")
       ELSE LET cancelled == Cancelled(renderTasks, currentRenderTask)
            IN  /\ renderTasks' = (renderTasks \ cancelled) \cup {RenderTask(t)}
                /\ currentRenderTask' = {t}
                /\ DidReport(IF cancelled = {} THEN "renderStart"
                             ELSE "renderSupersede", ReportCancelled(cancelled))
    /\ download' = {}
    /\ UNCHANGED <<viewer, serverOnly, hasChanges, pdfRuns, pages, loading, pdfDoc,
                   currentPageNumber, totalPages, isEditMode, textLayerItems,
                   editingText, textEdits, extractedAt, modernOnly, commitLog,
                   nUpdates>>

\* the task's promise resolved and renderCurrentPage ran to its end: PDFViewer
\* with isEditMode set in the closure installed the text layer (lines 142-144,
\* renderTextLayer line 351), ModernPDFViewer cleared its ref (line 178)
RenderDone(k) ==
    /\ k \in renderTasks
    /\ renderTasks' = renderTasks \ {k}
    /\ currentRenderTask' = IF viewer = "PDFViewer" THEN currentRenderTask ELSE {}
    /\ textLayerItems' = IF k.editMode
                         THEN ExtractTextItems(k.page, k.scale, k.rotation)
                         ELSE textLayerItems
    /\ extractedAt' = IF k.editMode
                      THEN {[page |-> k.page, scale |-> k.scale,
                             rotation |-> k.rotation]}
                      ELSE extractedAt
    /\ download' = {}
    /\ Did("render")
    /\ UNCHANGED <<viewer, renders, serverOnly, hasChanges, pdfRuns, pages, loading,
                   pdfDoc, currentPageNumber, totalPages, isEditMode, editingText,
                   textEdits, modernOnly, commitLog, nUpdates>>

\* ModernPDFViewer's task failed while drawing: its promise was rejected with
\* an error, the catch at line 180 logs it and the ref keeps referring to the
\* task.  (In PDFViewer a task that fails ends as a refused one does.)
RenderRejected(k) ==
    /\ k \in renderTasks
    /\ viewer # "PDFViewer"
    /\ renderTasks' = renderTasks \ {k}
    /\ download' = {}
    /\ DidReport("renderError", ReportOf(viewer, "Error"))
    /\ UNCHANGED <<viewer, renders, currentRenderTask, serverOnly, hasChanges,
                   pdfRuns, pages, loading, pdfDoc, currentPageNumber, totalPages,
                   isEditMode, textLayerItems, editingText, textEdits, extractedAt,
                   modernOnly, commitLog, nUpdates>>

\* renderCurrentPage resumed from getPage() while the spinner had replaced the
\* canvas or the viewer was unmounted: canvasRef.current is null, PDFViewer's
\* line 99 throws and the catch at line 147 logs it, ModernPDFViewer returns
\* at its line 117
RenderFailed(t) ==
    /\ t \in renders
    /\ loading \/ viewer = "unmounted"
    /\ renders' = renders \ {t}
    /\ download' = {}
    /\ DidReport("renderFailed", IF viewer = "PDFViewer" THEN {"TypeError"} ELSE {})
    /\ UNCHANGED <<viewer, tasks, serverOnly, hasChanges, pdfRuns, pages, loading,
                   pdfDoc, currentPageNumber, totalPages, isEditMode, textLayerItems,
                   editingText, textEdits, extractedAt, modernOnly, commitLog,
                   nUpdates>>

-----------------------------------------------------------------------------
(***************************************************************************)
(* Handlers of PDFViewer.                                                  *)
(***************************************************************************)
\* PDFViewer's toolbar and overlay are rendered
ViewerShown == viewer = "PDFViewer" /\ Shown

\* the <input> of the focused item is rendered (lines 856, 867, 916)
InputShown ==
    /\ ViewerShown /\ isEditMode /\ editingText # {}
    /\ \E k \in DOMAIN textLayerItems :
           textLayerItems[k].id = (CHOOSE e \in editingText : TRUE).id

Focused == CHOOSE e \in editingText : TRUE

\* the user starts an action that renders only while few renders are in flight
FewPending == Cardinality(renders) + Cardinality(renderTasks) < MaxPending

\* the user commits edits and updates pages at most MaxChanges times in all
FewChanges == Commits(commitLog) + nUpdates + Cardinality(requests) < MaxChanges

\* ToggleEditMode that leaves the focused item as it is
ToggleEditModeKeepingFocus ==
    /\ ViewerShown /\ FewPending
    /\ isEditMode' = ~isEditMode
    /\ editingText' = editingText
    /\ RunEffects(FALSE, pages, pdfDoc, currentPageNumber, totalPages, ~isEditMode,
                  \* line 412: renderCurrentPage() of the render that still has
                  \* the old isEditMode in its closure
                  IF ~isEditMode /\ CanRender(pdfDoc, currentPageNumber, totalPages)
                  THEN {Closure(pages, currentPageNumber, isEditMode)} ELSE {})
    /\ download' = {}
    /\ Did("toggleEditMode")
    /\ UNCHANGED <<viewer, tasks, serverOnly, hasChanges, pdfRuns, pages, pdfDoc, currentPageNumber,
                   totalPages, textLayerItems, textEdits, commitLog, nUpdates,
                   extractedAt,
                   modernOnly>>

\* toggleEditMode, lines 405-423
ToggleEditMode ==
    /\ ViewerShown /\ FewPending
    /\ isEditMode' = ~isEditMode
    /\ editingText' = {}
    /\ RunEffects(FALSE, pages, pdfDoc, currentPageNumber, totalPages, ~isEditMode,
                  \* line 412: renderCurrentPage() of the render that still has
                  \* the old isEditMode in its closure
                  IF ~isEditMode /\ CanRender(pdfDoc, currentPageNumber, totalPages)
                  THEN {Closure(pages, currentPageNumber, isEditMode)} ELSE {})
    /\ download' = {}
    /\ Did("toggleEditMode")
    /\ UNCHANGED <<viewer, tasks, serverOnly, hasChanges, pdfRuns, pages, pdfDoc, currentPageNumber,
                   totalPages, textLayerItems, textEdits, commitLog, nUpdates,
                   extractedAt,
                   modernOnly>>

\* handleTextClick, lines 358-369, on the k-th item of the overlay (line 913)
HandleTextClick(k) ==
    /\ ViewerShown /\ isEditMode
    /\ k \in DOMAIN textLayerItems
    /\ editingText' = {[id |-> textLayerItems[k].id,
                        content |-> textLayerItems[k].content]}
    /\ download' = {}
    /\ Did("click")
    /\ UNCHANGED <<viewer, tasks, serverOnly, hasChanges, pdfRuns, pages, loading, pdfDoc, currentPageNumber,
                   totalPages, isEditMode, textLayerItems, textEdits, renders,
                   commitLog, nUpdates, extractedAt,
                   modernOnly>>

\* the input's onChange, lines 920-923
TypeText(s) ==
    /\ InputShown
    /\ s # Focused.content
    /\ editingText' = {[Focused EXCEPT !.content = s]}
    /\ download' = {}
    /\ Did("type")
    /\ UNCHANGED <<viewer, tasks, serverOnly, hasChanges, pdfRuns, pages, loading, pdfDoc, currentPageNumber,
                   totalPages, isEditMode, textLayerItems, textEdits, renders,
                   commitLog, nUpdates, extractedAt,
                   modernOnly>>

\* handleTextEdit, lines 371-403
HandleTextEdit(newContent) ==
    /\ editingText # {}
    /\ textLayerItems' =
           [k \in DOMAIN textLayerItems |->
               IF textLayerItems[k].id = Focused.id
               THEN [textLayerItems[k] EXCEPT !.content = newContent]
               ELSE textLayerItems[k]]
    /\ textEdits' = SetEdit(textEdits, currentPageNumber, Focused.id, newContent)
    /\ commitLog' = LogCommit(commitLog, currentPageNumber, Focused.id, newContent)
    /\ editingText' = {}

\* the user commits to at most MaxEditedItems items
MayCommit ==
    /\ FewChanges
    /\ \/ EditOf(textEdits, currentPageNumber, Focused.id) # Undefined
       \/ Cardinality(textEdits) < MaxEditedItems

\* the input's onBlur, lines 924-928
Blur ==
    /\ InputShown /\ MayCommit
    /\ HandleTextEdit(Focused.content)
    /\ download' = {}
    /\ Did("blur")
    /\ UNCHANGED <<viewer, tasks, serverOnly, hasChanges, pdfRuns, pages, loading, pdfDoc, currentPageNumber,
                   totalPages, isEditMode, renders, nUpdates, extractedAt,
                   modernOnly>>

\* Enter in the input: onKeyPress and onKeyDown, lines 929-943
Enter ==
    /\ InputShown /\ MayCommit
    /\ HandleTextEdit(Focused.content)
    /\ download' = {}
    /\ Did("enter")
    /\ UNCHANGED <<viewer, tasks, serverOnly, hasChanges, pdfRuns, pages, loading, pdfDoc, currentPageNumber,
                   totalPages, isEditMode, renders, nUpdates, extractedAt,
                   modernOnly>>

\* Escape that stores the buffer as Enter does
EscapeCommitting ==
    /\ InputShown /\ MayCommit
    /\ HandleTextEdit(Focused.content)
    /\ download' = {}
    /\ Did("escape")
    /\ UNCHANGED <<viewer, tasks, serverOnly, hasChanges, pdfRuns, pages, loading, pdfDoc, currentPageNumber,
                   totalPages, isEditMode, renders, nUpdates, extractedAt,
                   modernOnly>>

\* Escape in the input: onKeyPress, lines 934-936
Escape ==
    /\ InputShown
    /\ editingText' = {}
    /\ download' = {}
    /\ Did("escape")
    /\ UNCHANGED <<viewer, tasks, serverOnly, hasChanges, pdfRuns, pages, loading, pdfDoc, currentPageNumber,
                   totalPages, isEditMode, textLayerItems, textEdits, renders,
                   commitLog, nUpdates, extractedAt,
                   modernOnly>>

\* NavigateTo that commits the buffer of the focused item before it leaves
NavigateToCommitting(pageNumber) ==
    /\ editingText' = {}
    /\ currentPageNumber' = pageNumber
    /\ textEdits' = IF editingText = {} THEN textEdits
                    ELSE SetEdit(textEdits, currentPageNumber, Focused.id,
                                 Focused.content)
    /\ RunEffects(FALSE, pages, pdfDoc, pageNumber, totalPages, isEditMode, {})
    /\ download' = {}
    /\ UNCHANGED <<viewer, tasks, serverOnly, hasChanges, pdfRuns, pages, pdfDoc, totalPages, isEditMode,
                   textLayerItems, commitLog, nUpdates, extractedAt, modernOnly>>

\* the common part of goToPreviousPage, goToNextPage and goToPage
NavigateTo(pageNumber) ==
    /\ editingText' = {}
    /\ currentPageNumber' = pageNumber
    /\ RunEffects(FALSE, pages, pdfDoc, pageNumber, totalPages, isEditMode, {})
    /\ download' = {}
    /\ UNCHANGED <<viewer, tasks, serverOnly, hasChanges, pdfRuns, pages, pdfDoc, totalPages, isEditMode,
                   textLayerItems, textEdits, commitLog, nUpdates, extractedAt,
                   modernOnly>>

\* goToPreviousPage, lines 425-430
GoToPreviousPage ==
    /\ ViewerShown /\ FewPending
    /\ currentPageNumber > 1
    /\ NavigateTo(currentPageNumber - 1)
    /\ Did("previousPage")

\* goToNextPage, lines 432-437
GoToNextPage ==
    /\ ViewerShown /\ FewPending
    /\ currentPageNumber < totalPages
    /\ NavigateTo(currentPageNumber + 1)
    /\ Did("nextPage")

\* goToPage, lines 439-444, from the page input or a thumbnail
GoToPage(pageNumber) ==
    /\ ViewerShown /\ FewPending
    /\ pageNumber >= 1 /\ pageNumber <= totalPages
    /\ NavigateTo(pageNumber)
    /\ Did("goToPage")

\* onPageUpdate(currentPage.id, updates): the parent replaces the page and
\* hands a new document object down
PageUpdate(newPage) ==
    /\ FewChanges
    /\ nUpdates' = nUpdates + 1
    /\ pages' = [pages EXCEPT ![currentPageNumber] = newPage]
    /\ RunEffects(TRUE, pages', pdfDoc, currentPageNumber, totalPages, isEditMode, {})
    /\ download' = {}
    /\ UNCHANGED <<viewer, tasks, serverOnly, hasChanges, pdfRuns, pdfDoc, currentPageNumber, totalPages,
                   isEditMode, textLayerItems, editingText, textEdits,
                   commitLog, extractedAt,
                   modernOnly>>

\* handleRotate, lines 446-452
HandleRotate ==
    /\ ViewerShown /\ FewPending
    /\ PageData(pages, currentPageNumber) # {}
    /\ PageUpdate([pages[currentPageNumber] EXCEPT
                      !.rotation = (pages[currentPageNumber].rotation + 90) % 360])
    /\ Did("rotate")

\* the toolbar's "Toggle 180" button, lines 766-773
HandleFlip ==
    /\ ViewerShown /\ FewPending
    /\ PageData(pages, currentPageNumber) # {}
    /\ PageUpdate([pages[currentPageNumber] EXCEPT
                      !.rotation = IF pages[currentPageNumber].rotation = 180
                                   THEN 0 ELSE 180])
    /\ Did("flip")

Max(a, b) == IF a >= b THEN a ELSE b
Min(a, b) == IF a <= b THEN a ELSE b

\* (currentPage.scale || 1.0) + scaleChange, lines 457-458, before the clamp
Unclamped(scale, direction) ==
    scale + (IF direction = "in" THEN ZoomStep ELSE 0 - ZoomStep)

\* a handler that refuses a result outside the range
ZoomedScaleRejecting(scale, direction) ==
    IF Unclamped(scale, direction) \in MinScale..MaxScale
    THEN Unclamped(scale, direction) ELSE scale

\* a handler without the clamp
ZoomedScaleUnclamped(scale, direction) == Unclamped(scale, direction)

\* Math.max(0.5, Math.min(3, scale + scaleChange)), line 458
ZoomedScale(scale, direction) ==
    Max(MinScale, Min(MaxScale, Unclamped(scale, direction)))

\* handleZoom, lines 454-461
HandleZoom(direction) ==
    /\ ViewerShown /\ FewPending
    /\ PageData(pages, currentPageNumber) # {}
    /\ PageUpdate([pages[currentPageNumber] EXCEPT
                      !.scale = ZoomedScale(pages[currentPageNumber].scale, direction)])
    /\ Did("zoom")

\* handleDeleteCurrentPage, lines 463-478, with the confirm dialog accepted
HandleDeleteCurrentPage ==
    /\ ViewerShown /\ FewPending
    /\ PageData(pages, currentPageNumber) # {}
    /\ FewChanges
    /\ nUpdates' = nUpdates + 1
    /\ pages' = [pages EXCEPT ![currentPageNumber].present = FALSE]
    /\ currentPageNumber' = IF currentPageNumber > 1 THEN currentPageNumber - 1
                            ELSE IF totalPages > 1 THEN 1 ELSE currentPageNumber
    /\ totalPages' = totalPages - 1
    /\ RunEffects(TRUE, pages', pdfDoc, currentPageNumber', totalPages', isEditMode, {})
    /\ download' = {}
    /\ Did("deletePage")
    /\ UNCHANGED <<viewer, tasks, serverOnly, hasChanges, pdfRuns, pdfDoc, isEditMode, textLayerItems,
                   editingText, textEdits, commitLog, extractedAt,
                   modernOnly>>

-----------------------------------------------------------------------------
(***************************************************************************)
(* Export: handleDownloadPDF, lines 480-634.  Every page is rendered to a  *)
(* bitmap that becomes the background image of a new page; the edits are   *)
(* drawn over it.                                                          *)
(***************************************************************************)
\* lines 569-611: what textContent.items.forEach draws on the new page
ExportDraws(pageNum, edits) ==
    LET raw  == pdfRuns[pageNum]
        vh   == 10 * PageH      \* originalPage.getViewport({scale: 1.0}).height
        cand == [k \in 1..Len(raw) |->
                    [index  |-> k - 1,
                     str    |-> raw[k].str,
                     edited |-> EditOf(edits, pageNum, <<pageNum, k - 1>>),
                     x      |-> 10 * raw[k].tx,
                     y      |-> vh - 10 * raw[k].ty - 10 * raw[k].height,
                     width  |-> 10 * raw[k].width,
                     height |-> 10 * raw[k].height]]
        hit  == SelectSeq(cand, LAMBDA c : Truthy(c.edited) /\ c.edited # c.str)
    IN  [k \in 1..Len(hit) |->
            [index |-> hit[k].index,
             text  |-> hit[k].edited,
             x     |-> hit[k].x,
             y     |-> hit[k].y,
             rect  |-> [x |-> hit[k].x - 10, y |-> hit[k].y - 10,
                        width  |-> hit[k].width + 20,
                        height |-> hit[k].height + 20]]]

\* lines 506-615: one page of the new document
ExportPage(pageNum, pgs, edits) ==
    [pageNum  |-> pageNum,
     rotation |-> RotationOf(pgs, pageNum),
     image    |-> pageNum,
     draws    |-> IF PageEdits(edits, pageNum) # {}
                  THEN ExportDraws(pageNum, edits) ELSE <<>>]

ExportDocument(total, pgs, edits) ==
    [pageIndex \in 1..total |-> ExportPage(pageIndex, pgs, edits)]

\* The text runs of a page of the new document: the page is the embedded PNG
\* (lines 540-551), white rectangles (line 590) and the texts of drawText
\* (line 600); only the latter are text.
ExportedRuns(exportPage) ==
    [k \in DOMAIN exportPage.draws |->
        [str |-> exportPage.draws[k].text,
         x   |-> exportPage.draws[k].x,
         y   |-> exportPage.draws[k].y]]

\* handleDownloadPDF, clicked while nothing is rendering and no input has
\* the focus
HandleDownloadPDF ==
    /\ ViewerShown /\ pdfDoc
    /\ FewPending /\ editingText = {}
    /\ download' = IF Cardinality(textEdits) = 0
                   THEN {}      \* line 492: 'No edits to save!'
                   ELSE {ExportDocument(totalPages, pages, textEdits)}
    /\ Did("download")
    /\ UNCHANGED <<viewer, tasks, serverOnly, hasChanges, pdfRuns, pages, loading, pdfDoc, currentPageNumber,
                   totalPages, isEditMode, textLayerItems, editingText,
                   textEdits, renders, commitLog, nUpdates, extractedAt,
                   modernOnly>>

-----------------------------------------------------------------------------
(***************************************************************************)
(* Handlers of ModernPDFViewer (src/unnamed/part_001) with the Editor      *)
(* page's onTextEdit = editPageText and onLoadText = loadPageText.         *)
(***************************************************************************)
\* ModernPDFViewer's toolbar and overlay are rendered
ModernShown == viewer = "ModernPDFViewer" /\ Shown

\* the <input> of the focused item is rendered (lines 389, 398, 422)
ModernInputShown ==
    /\ ModernShown /\ isEditMode /\ editingItem # {}
    /\ (CHOOSE e \in editingItem : TRUE).index + 1 \in DOMAIN textItems

ModernFocused == CHOOSE e \in editingItem : TRUE

\* handleEditModeToggle, lines 187-202
HandleEditModeToggle ==
    /\ ModernShown
    /\ textItems' = IF ~isEditMode THEN LoadPageText(currentPageNumber)
                    ELSE textItems
    /\ isEditMode' = ~isEditMode
    /\ editingItem' = {}
    /\ Did("toggleEditMode")
    /\ UNCHANGED <<viewer, tasks, serverOnly, hasChanges, pdfRuns, pages, loading, pdfDoc, currentPageNumber,
                   totalPages, renders, viewerOnly, pdfData, editedTexts,
                   requests, commitLog, nUpdates>>

\* handleTextClick(item, index), lines 204-217
SeedEditingItem(index) ==
    {[index |-> index, text |-> textItems[index + 1].text]}

\* a click on the index-th item of the overlay (line 419), its input included
ModernHandleTextClick(index) ==
    /\ ModernShown /\ isEditMode
    /\ index + 1 \in DOMAIN textItems
    /\ editingItem' = SeedEditingItem(index)
    /\ Did("click")
    /\ UNCHANGED <<viewer, tasks, serverOnly, hasChanges, pdfRuns, pages, loading, pdfDoc, currentPageNumber,
                   totalPages, isEditMode, renders, viewerOnly, textItems,
                   pdfData, editedTexts, requests, commitLog, nUpdates>>

\* the input's onChange, lines 426-429
ModernTypeText(s) ==
    /\ ModernInputShown
    /\ s # ModernFocused.text
    /\ editingItem' = {[ModernFocused EXCEPT !.text = s]}
    /\ Did("type")
    /\ UNCHANGED <<viewer, tasks, serverOnly, hasChanges, pdfRuns, pages, loading, pdfDoc, currentPageNumber,
                   totalPages, isEditMode, renders, viewerOnly, textItems,
                   pdfData, editedTexts, requests, commitLog, nUpdates>>

\* the input loses the focus: the <input> at lines 423-453 has no onBlur
ModernBlur ==
    /\ ModernInputShown
    /\ Did("blur")
    /\ UNCHANGED <<viewer, tasks, serverOnly, hasChanges, pdfRuns, pages, loading, pdfDoc, currentPageNumber,
                   totalPages, isEditMode, renders, viewerOnly, modernOnly,
                   commitLog, nUpdates>>

\* editPageText up to its fetch, lines 323-366, called by handleTextSave
\* (lines 219-237): the requests in flight after the call
SendEdit(pageNumber, oldText, newText, textIndex) ==
    LET textItem == FindTextItem(pageNumber, oldText, textIndex)
    IN  IF textItem = {} THEN requests    \* line 334: returns false
        ELSE requests \cup
               {[page         |-> pageNumber,
                 metadata_key |-> (CHOOSE i \in textItem : TRUE).metadataKey,
                 new_text     |-> newText,
                 pdf_data     |-> pdfData,
                 textIndex    |-> textIndex,
                 \* what handleTextSave's closure holds for its continuation
                 index        |-> ModernFocused.index,
                 textItems    |-> textItems]}

\* handleTextSave, lines 219-237
HandleTextSave ==
    /\ ModernInputShown
    /\ FewChanges /\ Cardinality(requests) < MaxPending
    /\ requests' = SendEdit(currentPageNumber,
                            textItems[ModernFocused.index + 1].text,
                            ModernFocused.text,
                            textItems[ModernFocused.index + 1].index)
    /\ UNCHANGED <<viewer, tasks, serverOnly, hasChanges, pdfRuns, pages, loading, pdfDoc, currentPageNumber,
                   totalPages, isEditMode, renders, viewerOnly, textItems,
                   pdfData, editedTexts, commitLog, nUpdates>>

\* Enter in the input, lines 446-448
ModernEnter ==
    /\ HandleTextSave
    /\ editingItem' = editingItem
    /\ Did("enter")

\* the confirm button, line 457; the click bubbles to the item's onClick
SaveButton ==
    /\ HandleTextSave
    /\ editingItem' = SeedEditingItem(ModernFocused.index)
    /\ Did("saveButton")

\* setCurrentDocument of editPageText, lines 385-395:
\* editedTexts: {...page.editedTexts, [textIndex || 0]: newText}
SetEditedText(edits, pageNumber, textIndex, newText) ==
    {e \in edits : ~(e.page = pageNumber /\ e.id = EditedTextsKey(textIndex))}
        \cup {[page |-> pageNumber, id |-> EditedTextsKey(textIndex),
               text |-> newText]}

\* the backend answered success: editPageText lines 374-400, then
\* handleTextSave lines 239-250
EditSucceeded(r) ==
    /\ r \in requests
    /\ requests' = requests \ {r}
    /\ pdfData' = BackendEditText(r.pdf_data, r.metadata_key, r.new_text)
    /\ editedTexts' = SetEditedText(editedTexts, r.page, r.textIndex, r.new_text)
    /\ commitLog' = LogCommit(commitLog, r.page, EditedTextsKey(r.textIndex),
                              r.new_text)
    /\ textItems' = [r.textItems EXCEPT ![r.index + 1].text = r.new_text]
    /\ editingItem' = {}
    \* currentDocument is a new object with a new pages array
    /\ RunEffects(TRUE, pages, pdfDoc, currentPageNumber, totalPages, isEditMode, {})
    /\ hasChanges' = TRUE
    /\ Did("editSucceeded")
    /\ UNCHANGED <<viewer, tasks, serverOnly, pdfRuns, pages, pdfDoc, currentPageNumber, totalPages,
                   isEditMode, viewerOnly, nUpdates>>

\* EditFailed that gives the focused item up
EditFailedUnfocusing(r) ==
    /\ r \in requests
    /\ requests' = requests \ {r}
    /\ editingItem' = {}
    /\ Did("editFailed")
    /\ UNCHANGED <<viewer, tasks, serverOnly, hasChanges, pdfRuns, pages, loading, pdfDoc,
                   currentPageNumber, totalPages, isEditMode, renders, viewerOnly,
                   textItems, pdfData, editedTexts, commitLog, nUpdates>>

\* the backend answered success: false, or the fetch failed: editPageText
\* lines 401-410 returns false and handleTextSave does nothing more
EditFailed(r) ==
    /\ r \in requests
    /\ requests' = requests \ {r}
    /\ Did("editFailed")
    /\ UNCHANGED <<viewer, tasks, serverOnly, hasChanges, pdfRuns, pages, loading, pdfDoc, currentPageNumber,
                   totalPages, isEditMode, renders, viewerOnly, textItems,
                   editingItem, pdfData, editedTexts, commitLog, nUpdates>>

\* handleTextCancel, lines 257-259
HandleTextCancel == {}

\* Escape in the input, lines 449-451
ModernEscape ==
    /\ ModernInputShown
    /\ editingItem' = HandleTextCancel
    /\ Did("escape")
    /\ UNCHANGED <<viewer, tasks, serverOnly, hasChanges, pdfRuns, pages, loading, pdfDoc, currentPageNumber,
                   totalPages, isEditMode, renders, viewerOnly, textItems,
                   pdfData, editedTexts, requests, commitLog, nUpdates>>

\* the cancel button, line 463: handleTextCancel, then the click bubbles to the
\* item's onClick (line 419) and handleTextClick's update is the last one
CancelButton ==
    /\ ModernInputShown
    /\ editingItem' = SeedEditingItem(ModernFocused.index)
    /\ Did("cancelButton")
    /\ UNCHANGED <<viewer, tasks, serverOnly, hasChanges, pdfRuns, pages, loading, pdfDoc, currentPageNumber,
                   totalPages, isEditMode, renders, viewerOnly, textItems,
                   pdfData, editedTexts, requests, commitLog, nUpdates>>

\* ModernPDFViewer is unmounted: the cleanup of the effect at lines 68-80
\* cancels the current task; the component's state is gone
ModernUnmount ==
    /\ viewer = "ModernPDFViewer" /\ requests = {}
    /\ viewer' = "unmounted"
    /\ renderTasks' = renderTasks \ Cancelled(renderTasks, currentRenderTask)
    /\ currentRenderTask' = {}
    /\ isEditMode' = FALSE
    /\ textItems' = <<>>
    /\ editingItem' = {}
    /\ DidReport("unmount",
                 ReportCancelled(Cancelled(renderTasks, currentRenderTask)))
    /\ UNCHANGED <<serverOnly, hasChanges, pdfRuns, pages, loading, pdfDoc,
                   currentPageNumber, totalPages, renders, viewerOnly, pdfData,
                   editedTexts, requests, commitLog, nUpdates>>

\* the common part of ModernPDFViewer's goToPreviousPage and goToNextPage
ModernNavigateTo(pageNumber) ==
    /\ currentPageNumber' = pageNumber
    /\ editingItem' = {}
    /\ textItems' = <<>>
    /\ isEditMode' = FALSE
    /\ RunEffects(FALSE, pages, pdfDoc, pageNumber, totalPages, FALSE, {})
    /\ UNCHANGED <<viewer, tasks, serverOnly, hasChanges, pdfRuns, pages, pdfDoc, totalPages, viewerOnly, pdfData,
                   editedTexts, requests, commitLog, nUpdates>>

\* goToPreviousPage, lines 261-270
ModernGoToPreviousPage ==
    /\ ModernShown /\ FewPending
    /\ currentPageNumber > 1
    /\ ModernNavigateTo(currentPageNumber - 1)
    /\ Did("previousPage")

\* goToNextPage, lines 272-281
ModernGoToNextPage ==
    /\ ModernShown /\ FewPending
    /\ currentPageNumber < totalPages
    /\ ModernNavigateTo(currentPageNumber + 1)
    /\ Did("nextPage")

\* the Editor page's handlePageUpdate: updateDocument({pages: updatedPages})
ModernPageUpdate(newPage) ==
    /\ ModernShown /\ FewPending
    /\ FewChanges /\ requests = {}
    /\ PageData(pages, currentPageNumber) # {}
    /\ nUpdates' = nUpdates + 1
    /\ pages' = [pages EXCEPT ![currentPageNumber] = newPage]
    /\ RunEffects(TRUE, pages', pdfDoc, currentPageNumber, totalPages, isEditMode, {})
    /\ Did("zoom")
    /\ UNCHANGED <<viewer, tasks, serverOnly, hasChanges, pdfRuns, pdfDoc, currentPageNumber, totalPages,
                   isEditMode, viewerOnly, modernOnly, commitLog>>

\* handleZoomIn, lines 283-289
HandleZoomIn ==
    ModernPageUpdate([pages[currentPageNumber] EXCEPT
                         !.scale = Min(pages[currentPageNumber].scale + ZoomStep,
                                       MaxScale)])

\* handleZoomOut, lines 291-297
HandleZoomOut ==
    ModernPageUpdate([pages[currentPageNumber] EXCEPT
                         !.scale = Max(pages[currentPageNumber].scale - ZoomStep,
                                       MinScale)])

-----------------------------------------------------------------------------
(***************************************************************************)
(* The hook of src/src/hooks/usePDFEditor.ts over the Node backend         *)
(* (src/backend/routes/pdf.js).  A file is the texts of its runs per page. *)
(***************************************************************************)
HookMounted == viewer = "usePDFEditor"

\* backend/uploads/<id>.pdf (pdf.js line 315): the uploaded bytes
UploadsFile ==
    [p \in DOMAIN pdfRuns |-> [k \in 1..Len(pdfRuns[p]) |-> pdfRuns[p][k].str]]

\* python-services/edit_text.py: the document with the new text in the run
\* textIndex names, or in the first run that shows oldText
EditTextPy(pdf, pageNumber, oldText, newText, textIndex) ==
    LET hit == IF textIndex # {}
               THEN {i + 1 : i \in {j \in textIndex : j + 1 \in DOMAIN pdf[pageNumber]}}
               ELSE {k \in DOMAIN pdf[pageNumber] : pdf[pageNumber][k] = oldText}
    IN  IF hit = {} THEN pdf
        ELSE [pdf EXCEPT ![pageNumber][CHOOSE k \in hit : \A j \in hit : k <= j]
                              = newText]

\* the ways a request's subprocess can end (pdf.js lines 185-223, 375-411),
\* and the request finding no file (lines 166, 317)
Exits == {"ok", "unparsable", "nonzero", "spawn_threw", "not_found"}

\* getMockEditResponse, lines 424-432
GetMockEditResponse ==
    [status |-> 200, success |-> TRUE, editedFileId |-> "mock_edited"]

\* router.post('/:id/edit'), lines 310-421: the response
EditRoute(exit) ==
    IF exit = "not_found"
    THEN [status |-> 404, success |-> FALSE, editedFileId |-> ""]
    ELSE IF exit = "ok"
    THEN [status |-> 200, success |-> TRUE, editedFileId |-> "id_edited"]
    ELSE GetMockEditResponse

\* router.get('/:id/pages/:pageNumber/text'), lines 161-225: the response
\* carries the items of extract_text.py or those of getMockTextItems
TextRoute(exit) ==
    IF exit = "not_found" THEN [status |-> 404, mock |-> FALSE]
    ELSE [status |-> 200, mock |-> exit # "ok"]

\* router.get('/:id/download'), lines 435-457: the files sent for
\* <source>/<id>.pdf, as a set of at most one
DownloadRoute(source) ==
    IF source = "uploads" THEN {UploadsFile}
    ELSE {f.data : f \in {g \in outputDir : g.name = "id"}}

\* the hook starts few requests
FewCalls ==
    /\ Cardinality(backendCalls) < MaxPending
    /\ Commits(commitLog) + Cardinality(backendCalls) < MaxChanges

\* the hook's own state and the backend's, but for the calls in flight
hookState == <<editedTexts, hasChanges, outputDir, textData, blob, lastExit,
               commitLog>>

\* what no operation of the hook touches
viewersState == <<viewer, tasks, pdfRuns, pages, loading, pdfDoc, currentPageNumber,
                  totalPages, isEditMode, renders, viewerOnly, textItems,
                  editingItem, pdfData, requests, nUpdates>>

\* editPageText, lines 137-159, up to the await of editText(); the backend
\* spawns edit_text.py (pdf.js lines 357-373)
HookEditPageText(pageNumber, oldText, newText, textIndex) ==
    /\ HookMounted /\ FewCalls
    /\ backendCalls' = backendCalls \cup
           {[route |-> "edit", pageNumber |-> pageNumber, oldText |-> oldText,
             newText |-> newText, textIndex |-> textIndex,
             process |-> "running"]}
    /\ isProcessing' = TRUE                \* line 148
    /\ HookDid("editPageText")
    /\ UNCHANGED isExtracting
    /\ UNCHANGED <<viewersState, hookState>>

\* the edit request is answered (pdf.js lines 375-420) and editPageText goes
\* on from its await, lines 161-199
HookEditResponded(c, exit) ==
    /\ c \in backendCalls /\ c.route = "edit" /\ c.process = "running"
    /\ backendCalls' = backendCalls \ {c}
    /\ lastExit' = exit
    /\ outputDir' = IF exit = "ok"
                    THEN {f \in outputDir : f.name # "id_edited"} \cup
                         {[name |-> "id_edited",
                           data |-> EditTextPy(UploadsFile, c.pageNumber, c.oldText,
                                               c.newText, c.textIndex)]}
                    ELSE outputDir
    /\ IF EditRoute(exit).status = 200 /\ EditRoute(exit).success
       THEN /\ editedTexts' = SetEditedText(editedTexts, c.pageNumber, c.textIndex,
                                            c.newText)
            /\ hasChanges' = TRUE
            /\ commitLog' = LogCommit(commitLog, c.pageNumber,
                                      EditedTextsKey(c.textIndex), c.newText)
            /\ HookDid("editReturnedTrue")
       ELSE /\ UNCHANGED <<editedTexts, hasChanges, commitLog>>
            /\ HookDid("editReturnedFalse")
    /\ isProcessing' = FALSE               \* finally, line 198
    /\ UNCHANGED <<viewersState, textData, blob, isExtracting>>

\* loadPageText, lines 87-102, up to the await of extractPageText(); the
\* backend spawns extract_text.py (pdf.js lines 172-177)
HookLoadPageText(pageNumber) ==
    /\ HookMounted /\ Cardinality(backendCalls) < MaxPending
    /\ \A t \in textData : t.page # pageNumber       \* lines 93-96
    /\ backendCalls' = backendCalls \cup
           {[route |-> "text", pageNumber |-> pageNumber, process |-> "running"]}
    /\ isExtracting' = TRUE                \* line 98
    /\ HookDid("loadPageText")
    /\ UNCHANGED isProcessing
    /\ UNCHANGED <<viewersState, hookState>>

\* the extraction request is answered (pdf.js lines 185-223) and loadPageText
\* goes on from its await, lines 104-134
HookTextResponded(c, exit) ==
    /\ c \in backendCalls /\ c.route = "text" /\ c.process = "running"
    /\ backendCalls' = backendCalls \ {c}
    /\ lastExit' = exit
    /\ textData' = IF TextRoute(exit).status = 200
                   THEN {t \in textData : t.page # c.pageNumber} \cup
                        {[page |-> c.pageNumber, mock |-> TextRoute(exit).mock]}
                   ELSE textData
    /\ isExtracting' = FALSE               \* finally, line 133
    /\ HookDid("loadPageTextReturned")
    /\ UNCHANGED isProcessing
    /\ UNCHANGED <<viewersState, editedTexts, hasChanges, outputDir, blob,
                   commitLog>>

\* the subprocess of a request does not exit: its 'close' event, the only
\* place the request is answered from (lines 185, 385), never comes
SubprocessHangs(c) ==
    /\ c \in backendCalls /\ c.process = "running"
    /\ backendCalls' = (backendCalls \ {c}) \cup {[c EXCEPT !.process = "hung"]}
    /\ HookDid("subprocessHangs")
    /\ UNCHANGED busy
    /\ UNCHANGED <<viewersState, hookState>>

\* downloadEditedPDF, lines 202-235: downloadPDF(backendFileId) asks for
\* /pdf/<id>/download without a source
HookDownloadEditedPDF ==
    /\ HookMounted
    /\ blob' = DownloadRoute("uploads")
    \* setIsProcessing(true) at line 208, and false in the finally, line 233
    /\ isProcessing' = FALSE
    /\ HookDid("downloadEditedPDF")
    /\ UNCHANGED isExtracting
    /\ UNCHANGED <<viewersState, backendCalls, editedTexts, hasChanges, outputDir,
                   textData, lastExit, commitLog>>

-----------------------------------------------------------------------------
Next ==
    \/ LoadPDFDone
    \/ \E t \in renders : RenderStart(t)
    \/ \E k \in renderTasks : RenderDone(k)
    \/ \E k \in renderTasks : RenderRejected(k)
    \/ \E t \in renders : RenderFailed(t)
    \/ ToggleEditMode
    \/ \E k \in DOMAIN textLayerItems : HandleTextClick(k)
    \/ \E s \in Typed : TypeText(s)
    \/ Blur
    \/ Enter
    \/ Escape
    \/ GoToPreviousPage
    \/ GoToNextPage
    \/ \E n \in 0..(NumPages + 1) : GoToPage(n)
    \/ HandleRotate
    \/ HandleFlip
    \/ \E d \in {"in", "out"} : HandleZoom(d)
    \/ HandleDeleteCurrentPage
    \/ HandleDownloadPDF
    \/ HandleEditModeToggle
    \/ \E i \in 0..(Len(textItems) - 1) : ModernHandleTextClick(i)
    \/ \E s \in Typed : ModernTypeText(s)
    \/ ModernBlur
    \/ ModernEnter
    \/ SaveButton
    \/ \E r \in requests : EditSucceeded(r)
    \/ \E r \in requests : EditFailed(r)
    \/ ModernEscape
    \/ CancelButton
    \/ ModernGoToPreviousPage
    \/ ModernGoToNextPage
    \/ HandleZoomIn
    \/ HandleZoomOut
    \/ ModernUnmount
    \/ \E p \in DOMAIN pdfRuns : \E k \in DOMAIN pdfRuns[p] :
       \E s \in Typed : \E i \in {{}, {k - 1}} :
           HookEditPageText(p, pdfRuns[p][k].str, s, i)
    \/ \E c \in backendCalls : \E x \in Exits : HookEditResponded(c, x)
    \/ \E p \in DOMAIN pdfRuns : HookLoadPageText(p)
    \/ \E c \in backendCalls : \E x \in Exits : HookTextResponded(c, x)
    \/ \E c \in backendCalls : SubprocessHangs(c)
    \/ HookDownloadEditedPDF

Spec == Init /\ [][Next]_vars

(***************************************************************************)
(* Zooming.  A session of Spec has room for MaxChanges page updates, fewer *)
(* than the zoom steps from the initial scale to a boundary of the range.  *)
(* ZoomSpec starts where earlier zoom-outs or zoom-ins from the initial    *)
(* scale have left the first page, and goes on zooming in either viewer.   *)
(***************************************************************************)
\* the scales zoom-outs alone or zoom-ins alone reach from the initial scale
ZoomScales ==
    {MinScale} \cup
    {s \in MinScale..MaxScale : (s - MinScale) % ZoomStep = (DefaultScale - MinScale) % ZoomStep}

ZoomInit ==
    /\ viewer \in {"PDFViewer", "ModernPDFViewer"}
    /\ pdfRuns \in (IF viewer = "PDFViewer" THEN Documents ELSE ModernDocuments)
    /\ \E s \in ZoomScales :
           pages = [p \in 1..NumPages |->
                       [rotation |-> 0,
                        scale    |-> IF p = 1 THEN s ELSE DefaultScale,
                        present  |-> TRUE]]
    /\ loading = TRUE
    /\ pdfDoc = FALSE
    /\ currentPageNumber = 1
    /\ totalPages = 0
    /\ isEditMode = FALSE
    /\ renders = {}
    /\ renderTasks = {}
    /\ currentRenderTask = {}
    /\ reported = {}
    /\ textLayerItems = <<>>
    /\ editingText = {}
    /\ textEdits = {}
    /\ download = {}
    /\ extractedAt = {}
    /\ textItems = <<>>
    /\ editingItem = {}
    /\ pdfData = UploadPdfData(pdfRuns)
    /\ editedTexts = {}
    /\ requests = {}
    /\ hasChanges = FALSE
    /\ backendCalls = {}
    /\ outputDir = {}
    /\ textData = {}
    /\ blob = {}
    /\ isProcessing = FALSE
    /\ isExtracting = FALSE
    /\ lastExit = "none"
    /\ commitLog = {}
    /\ nUpdates = 0
    /\ lastOp = "mount"
    /\ wasFocused = FALSE
    /\ arg = {}
    /\ result = {}

ZoomNext ==
    \/ LoadPDFDone
    \/ \E t \in renders : RenderStart(t)
    \/ \E k \in renderTasks : RenderDone(k)
    \/ \E t \in renders : RenderFailed(t)
    \/ ToggleEditMode
    \/ \E d \in {"in", "out"} : HandleZoom(d)
    \/ HandleZoomIn
    \/ HandleZoomOut

ZoomSpec == ZoomInit /\ [][ZoomNext]_vars

-----------------------------------------------------------------------------
(***************************************************************************)
(* A second document.  PDFViewer takes its document as a prop; the parent  *)
(* loads a different document into the mounted viewer by handing it a new  *)
(* object with another file.  SessionSpec opens the viewer on              *)
(* FirstDocument, edits, and replaces the document once.                   *)
(***************************************************************************)
FirstDocument ==
    [p \in 1..NumPages |-> RawRuns(IF p = 1 THEN <<"A", "B">> ELSE <<"B", "A">>)]

\* props.document becomes a document with another file and pages as they
\* are after an upload; the effect on [document] (lines 35-39) calls loadPDF
DocumentReplaced ==
    /\ ViewerShown /\ FewPending
    /\ pdfRuns = FirstDocument
    /\ pdfRuns' \in Documents \ {FirstDocument}
    /\ pages' = [p \in 1..NumPages |->
                     [rotation |-> 0, scale |-> DefaultScale, present |-> TRUE]]
    /\ RunEffects(TRUE, pages', pdfDoc, currentPageNumber, totalPages, isEditMode, {})
    /\ download' = {}
    /\ Did("replaceDocument")
    /\ UNCHANGED <<viewer, tasks, serverOnly, hasChanges, pdfDoc, currentPageNumber,
                   totalPages, isEditMode, textLayerItems, editingText, textEdits,
                   commitLog, nUpdates, extractedAt, modernOnly>>

SessionInit == Init /\ viewer = "PDFViewer" /\ pdfRuns = FirstDocument

SessionNext ==
    \/ LoadPDFDone
    \/ \E t \in renders : RenderStart(t)
    \/ \E k \in renderTasks : RenderDone(k)
    \/ \E t \in renders : RenderFailed(t)
    \/ ToggleEditMode
    \/ \E k \in DOMAIN textLayerItems : HandleTextClick(k)
    \/ \E s \in Typed : TypeText(s)
    \/ Blur
    \/ Enter
    \/ Escape
    \/ GoToPreviousPage
    \/ GoToNextPage
    \/ HandleDownloadPDF
    \/ DocumentReplaced

SessionSpec == SessionInit /\ [][SessionNext]_vars

-----------------------------------------------------------------------------
(***************************************************************************)
(* Overlapping edits.  In Spec an edit is saved only when no other edit is *)
(* awaiting the backend.  The input stays usable while a request is in     *)
(* flight: OverlapSpec is ModernPDFViewer in which a second item is also   *)
(* saved during the request of the first.                                  *)
(***************************************************************************)
\* handleTextSave, lines 219-237, called while a request is in flight
HandleTextSaveDuringEdit ==
    /\ ModernInputShown
    /\ FewChanges /\ Cardinality(requests) = MaxPending
    /\ requests' = SendEdit(currentPageNumber,
                            textItems[ModernFocused.index + 1].text,
                            ModernFocused.text,
                            textItems[ModernFocused.index + 1].index)
    /\ editingItem' = editingItem
    /\ Did("enter")
    /\ UNCHANGED <<viewer, tasks, serverOnly, hasChanges, pdfRuns, pages, loading, pdfDoc, currentPageNumber,
                   totalPages, isEditMode, renders, viewerOnly, textItems,
                   pdfData, editedTexts, commitLog, nUpdates>>

OverlapInit == Init /\ viewer = "ModernPDFViewer"

OverlapNext ==
    \/ LoadPDFDone
    \/ \E t \in renders : RenderStart(t)
    \/ \E k \in renderTasks : RenderDone(k)
    \/ HandleEditModeToggle
    \/ \E i \in 0..(Len(textItems) - 1) : ModernHandleTextClick(i)
    \/ \E s \in Typed : ModernTypeText(s)
    \/ ModernEnter
    \/ HandleTextSaveDuringEdit
    \/ \E r \in requests : EditSucceeded(r)
    \/ \E r \in requests : EditFailed(r)

OverlapSpec == OverlapInit /\ [][OverlapNext]_vars

-----------------------------------------------------------------------------
(***************************************************************************)
(* Documents of fewer pages.  The documents of Spec have NumPages pages;   *)
(* PagesSpec opens PDFViewer on a document of one page up to NumPages      *)
(* pages, and navigates and deletes pages.                                 *)
(***************************************************************************)
ShortDocuments ==
    {[p \in 1..n |-> RawRuns(IF p = 1 THEN <<"A", "B">> ELSE <<"B", "A">>)] :
        n \in 1..NumPages}

PagesInit ==
    /\ viewer = "PDFViewer"
    /\ pdfRuns \in ShortDocuments
    /\ pages = [p \in DOMAIN pdfRuns |->
                    [rotation |-> 0, scale |-> DefaultScale, present |-> TRUE]]
    /\ loading = TRUE
    /\ pdfDoc = FALSE
    /\ currentPageNumber = 1
    /\ totalPages = 0
    /\ isEditMode = FALSE
    /\ renders = {}
    /\ renderTasks = {}
    /\ currentRenderTask = {}
    /\ reported = {}
    /\ textLayerItems = <<>>
    /\ editingText = {}
    /\ textEdits = {}
    /\ download = {}
    /\ extractedAt = {}
    /\ textItems = <<>>
    /\ editingItem = {}
    /\ pdfData = UploadPdfData(pdfRuns)
    /\ editedTexts = {}
    /\ requests = {}
    /\ hasChanges = FALSE
    /\ backendCalls = {}
    /\ outputDir = {}
    /\ textData = {}
    /\ blob = {}
    /\ isProcessing = FALSE
    /\ isExtracting = FALSE
    /\ lastExit = "none"
    /\ commitLog = {}
    /\ nUpdates = 0
    /\ lastOp = "mount"
    /\ wasFocused = FALSE
    /\ arg = {}
    /\ result = {}

PagesNext ==
    \/ LoadPDFDone
    \/ \E t \in renders : RenderStart(t)
    \/ \E k \in renderTasks : RenderDone(k)
    \/ ToggleEditMode
    \/ \E k \in DOMAIN textLayerItems : HandleTextClick(k)
    \/ \E s \in Typed : TypeText(s)
    \/ Escape
    \/ GoToPreviousPage
    \/ GoToNextPage
    \/ \E n \in 0..(NumPages + 1) : GoToPage(n)
    \/ HandleDeleteCurrentPage

PagesSpec == PagesInit /\ [][PagesNext]_vars

-----------------------------------------------------------------------------
(***************************************************************************)
(* Navigation while a page is being rendered.  The actions of Spec leave   *)
(* the page only when no render is pending; the page buttons are enabled   *)
(* all the time, and NavigationSpec also uses them during a render.        *)
(***************************************************************************)
\* goToPage, lines 439-444, called while a render is pending
GoToPageWhileRendering(pageNumber) ==
    /\ ViewerShown /\ ~FewPending
    /\ pageNumber >= 1 /\ pageNumber <= totalPages
    /\ NavigateTo(pageNumber)
    /\ Did("goToPage")

NavigationNext ==
    \/ LoadPDFDone
    \/ \E t \in renders : RenderStart(t)
    \/ \E k \in renderTasks : RenderDone(k)
    \/ ToggleEditMode
    \/ \E k \in DOMAIN textLayerItems : HandleTextClick(k)
    \/ GoToPreviousPage
    \/ GoToNextPage
    \/ \E n \in 1..NumPages : GoToPageWhileRendering(n)

NavigationSpec == SessionInit /\ [][NavigationNext]_vars

-----------------------------------------------------------------------------
(***************************************************************************)
(* The functions of the extraction and of the edit route that compute a    *)
(* value from their argument alone.  FunctionSpec draws the argument, arg, *)
(* from a bounded set and applies the function once; what it returned is   *)
(* in result.                                                              *)
(***************************************************************************)
\* the variables of the viewers, the hook and the backend
program == <<viewer, pdfRuns, pages, loading, pdfDoc, currentPageNumber,
             totalPages, isEditMode, renders, tasks, reported, viewerOnly,
             modernOnly, hasChanges, serverOnly, busy, commitLog, nUpdates,
             lastOp, wasFocused>>

(***************************************************************************)
(* Colours.  A JavaScript number is hi * 65536 + lo + half / 2 with lo    *)
(* below 65536 and half 0 or 1: the fractions 0, 0.5 and 1 of a colour     *)
(* channel and the packed integers 0xRRGGBB are numbers of this form, and  *)
(* so are their products with 255.                                         *)
(***************************************************************************)
Num(hi, lo, half) == [hi |-> hi, lo |-> lo, half |-> half]

\* Math.round(n * 255), lines 259, 267, 282: .5 is rounded up
Round255(n) ==
    LET t == n.lo * 255 + (IF n.half = 1 THEN 128 ELSE 0)
    IN  Num(n.hi * 255 + t \div 65536, t % 65536, 0)

\* the fractions of a channel, and the packed colours of the model
Fractions == {Num(0, 0, 0), Num(0, 0, 1), Num(0, 1, 0)}
PackedLevels == {0, 128, 255}
Packed(r, g, b) == Num(r, g * 256 + b, 0)
PackedColors == {Packed(r, g, b) : r, g, b \in PackedLevels}

\* item.color: undefined, a number, an array of numbers or a string
\* "rgb(r, g, b)"
ColorNumber(n) == [type |-> "number", n |-> n]
ColorArray(a)  == [type |-> "array", a |-> a]
ColorString(r, g, b) == [type |-> "string", rgb |-> <<r, g, b>>]
Colors ==
    {[type |-> "undefined"]}
    \cup {ColorNumber(n) : n \in Fractions \cup PackedColors}
    \cup {ColorArray(<<x>>) : x \in Fractions}
    \cup {ColorArray(<<x, y>>) : x, y \in {Num(0, 0, 0), Num(0, 1, 0)}}
    \cup {ColorArray(<<x, y, z>>) : x, y, z \in Fractions}
    \cup {ColorString(255, 0, 0), ColorString(0, 0, 0)}

\* if (item.color): undefined and the number 0 are falsy
ColorTruthy(color) ==
    /\ color.type # "undefined"
    /\ color.type = "number" => color.n # Num(0, 0, 0)

\* lines 245-286: textColor and rgbValues before the canvas is sampled
DetectedColor(color) ==
    LET default == [textColor |-> "#000000",
                    rgbValues |-> <<Num(0, 0, 0), Num(0, 0, 0), Num(0, 0, 0)>>]
        gray(n) == [textColor |-> "rgb",
                    rgbValues |-> <<Round255(n), Round255(n), Round255(n)>>]
    IN  IF ~ColorTruthy(color) THEN default
        ELSE IF color.type = "array"
        THEN IF Len(color.a) >= 3
             THEN [textColor |-> "rgb",
                   rgbValues |-> <<Round255(color.a[1]), Round255(color.a[2]),
                                   Round255(color.a[3])>>]
             ELSE IF Len(color.a) = 1 THEN gray(color.a[1])
             ELSE default
        ELSE IF color.type = "string"
        THEN [textColor |-> "string",
              rgbValues |-> <<Num(0, color.rgb[1], 0), Num(0, color.rgb[2], 0),
                              Num(0, color.rgb[3], 0)>>]
        ELSE gray(color.n)

\* the pixel ctx.getImageData(x, y, 1, 1) finds under the item, as bytes
Pixels == {<<255, 255, 255>>, <<0, 0, 0>>, <<255, 0, 0>>}

\* lines 288-308: a colour still '#000000' is replaced by the pixel of the
\* canvas unless that pixel is white
SampledColor(detected, pixel) ==
    IF detected.textColor = "#000000" /\ pixel # <<255, 255, 255>>
    THEN <<Num(0, pixel[1], 0), Num(0, pixel[2], 0), Num(0, pixel[3], 0)>>
    ELSE detected.rgbValues

\* part_003 line 194: a number becomes '#' + toString(16).padStart(6, '0'),
\* as its six hexadecimal digits; a number with a fraction has no such
\* digits; any other value is kept, and '#000000' stands in for a falsy one
LocalTextItemColor(color) ==
    IF color.type = "number"
    THEN IF color.n.half = 1 THEN [kind |-> "fraction"]
         ELSE [kind |-> "hex",
               digits |-> <<color.n.hi \div 16, color.n.hi % 16,
                            color.n.lo \div 4096, (color.n.lo \div 256) % 16,
                            (color.n.lo \div 16) % 16, color.n.lo % 16>>]
    ELSE IF ~ColorTruthy(color)
    THEN [kind |-> "hex", digits |-> <<0, 0, 0, 0, 0, 0>>]
    ELSE [kind |-> "kept", color |-> color]

\* renderTextLayer computes rgbValues of a run
RenderTextLayerColor ==
    /\ arg.fn = "color" /\ result = {}
    /\ \E pixel \in Pixels :
           result' = {[by |-> "renderTextLayer",
                       rgbValues |-> SampledColor(DetectedColor(arg.value), pixel)]}
    /\ UNCHANGED <<program, arg>>

\* uploadDocument builds the LocalTextItem of an item of the upload response
UploadDocumentColor ==
    /\ arg.fn = "color" /\ result = {}
    /\ result' = {[by |-> "uploadDocument", color |-> LocalTextItemColor(arg.value)]}
    /\ UNCHANGED <<program, arg>>

(***************************************************************************)
(* Font names.  A string is the sequence of its characters.                *)
(***************************************************************************)
UpperCase == <<"A", "B", "C", "D", "E", "F", "G", "H", "I", "J", "K", "L", "M", "N", "O", "P", "Q", "R", "S", "T", "U", "V", "W", "X", "Y", "Z">>
LowerCase == <<"a", "b", "c", "d", "e", "f", "g", "h", "i", "j", "k", "l", "m", "n", "o", "p", "q", "r", "s", "t", "u", "v", "w", "x", "y", "z">>

IsUpperCase(c) == \E i \in DOMAIN UpperCase : UpperCase[i] = c

\* String.prototype.toLowerCase, line 174
ToLowerCase(str) ==
    [k \in DOMAIN str |->
        IF IsUpperCase(str[k])
        THEN LowerCase[CHOOSE i \in DOMAIN UpperCase : UpperCase[i] = str[k]]
        ELSE str[k]]

\* String.prototype.includes
Includes(str, word) ==
    \E i \in 1..(Len(str) - Len(word) + 1) : SubSeq(str, i, i + Len(word) - 1) = word

\* a name that keeps its subset tag
KeepSubsetTag(fontName) == fontName

\* fontName.replace(/^[A-Z]{6}\+/, ''), line 167
StripSubsetTag(fontName) ==
    IF /\ Len(fontName) >= 7
       /\ \A i \in 1..6 : IsUpperCase(fontName[i])
       /\ fontName[7] = "+"
    THEN SubSeq(fontName, 8, Len(fontName))
    ELSE fontName

\* the keywords of lines 177-213
KwBlack == <<"b", "l", "a", "c", "k">>
KwHeavy == <<"h", "e", "a", "v", "y">>
KwExtrabold == <<"e", "x", "t", "r", "a", "b", "o", "l", "d">>
KwUltrabold == <<"u", "l", "t", "r", "a", "b", "o", "l", "d">>
KwBold == <<"b", "o", "l", "d">>
KwSemibold == <<"s", "e", "m", "i", "b", "o", "l", "d">>
KwDemi == <<"d", "e", "m", "i">>
KwMedium == <<"m", "e", "d", "i", "u", "m">>
KwLight == <<"l", "i", "g", "h", "t">>
KwThin == <<"t", "h", "i", "n">>
KwUltralight == <<"u", "l", "t", "r", "a", "l", "i", "g", "h", "t">>
KwItalic == <<"i", "t", "a", "l", "i", "c">>
KwOblique == <<"o", "b", "l", "i", "q", "u", "e">>
KwArial == <<"a", "r", "i", "a", "l">>
KwHelvetica == <<"h", "e", "l", "v", "e", "t", "i", "c", "a">>
KwCourier == <<"c", "o", "u", "r", "i", "e", "r">>
KwTimes == <<"t", "i", "m", "e", "s">>
KwCalibri == <<"c", "a", "l", "i", "b", "r", "i">>
KwVerdana == <<"v", "e", "r", "d", "a", "n", "a">>
KwTahoma == <<"t", "a", "h", "o", "m", "a">>
KwGeorgia == <<"g", "e", "o", "r", "g", "i", "a">>

\* lines 176-191
FontWeight(lowerFontName) ==
    IF Includes(lowerFontName, KwBlack) \/ Includes(lowerFontName, KwHeavy) THEN "900"
    ELSE IF Includes(lowerFontName, KwExtrabold) \/ Includes(lowerFontName, KwUltrabold)
    THEN "800"
    ELSE IF Includes(lowerFontName, KwBold) THEN "bold"
    ELSE IF Includes(lowerFontName, KwSemibold) \/ Includes(lowerFontName, KwDemi)
    THEN "600"
    ELSE IF Includes(lowerFontName, KwMedium) THEN "500"
    ELSE IF Includes(lowerFontName, KwLight) THEN "300"
    ELSE IF Includes(lowerFontName, KwThin) \/ Includes(lowerFontName, KwUltralight)
    THEN "200"
    ELSE "normal"

\* lines 193-196
FontStyle(lowerFontName) ==
    IF Includes(lowerFontName, KwItalic) \/ Includes(lowerFontName, KwOblique)
    THEN "italic" ELSE "normal"

\* lines 169 and 198-213
FontFamily(lowerFontName) ==
    IF Includes(lowerFontName, KwArial) \/ Includes(lowerFontName, KwHelvetica)
    THEN "Arial, Helvetica, \"Liberation Sans\", sans-serif"
    ELSE IF Includes(lowerFontName, KwCourier)
    THEN "\"Courier New\", Courier, \"Liberation Mono\", monospace"
    ELSE IF Includes(lowerFontName, KwTimes)
    THEN "\"Times New Roman\", Times, \"Liberation Serif\", serif"
    ELSE IF Includes(lowerFontName, KwCalibri) THEN "Calibri, \"Carlito\", sans-serif"
    ELSE IF Includes(lowerFontName, KwVerdana) THEN "Verdana, \"DejaVu Sans\", sans-serif"
    ELSE IF Includes(lowerFontName, KwTahoma) THEN "Tahoma, \"DejaVu Sans\", sans-serif"
    ELSE IF Includes(lowerFontName, KwGeorgia) THEN "Georgia, \"Liberation Serif\", serif"
    ELSE "Times, serif"

TimesRoman == <<"T", "i", "m", "e", "s", "-", "R", "o", "m", "a", "n">>

\* lines 164-213: item.fontName is undefined ({}) or a string ({name})
ResolveFont(itemFontName) ==
    LET fontName == IF itemFontName = {} \/ itemFontName = {<<>>} THEN TimesRoman
                    ELSE CHOOSE n \in itemFontName : TRUE
        lowerFontName == ToLowerCase(StripSubsetTag(fontName))
    IN  [fontFamily |-> FontFamily(lowerFontName),
         fontWeight |-> FontWeight(lowerFontName),
         fontStyle  |-> FontStyle(lowerFontName)]

\* the font names of the model: an optional subset tag, a family, and after
\* a hyphen a weight and a style
SubsetTags == {<<>>, <<"A", "B", "C", "D", "E", "F", "+">>, <<"T", "H", "I", "N", "A", "B", "+">>, <<"A", "B", "C", "D", "E", "+">>}
Families == {<<"H", "e", "l", "v", "e", "t", "i", "c", "a">>, <<"T", "i", "m", "e", "s">>, <<"C", "o", "u", "r", "i", "e", "r">>, <<"F", "o", "o">>}
Weights ==
    {<<>>, <<"B", "o", "l", "d">>,
     <<"S", "e", "m", "i", "B", "o", "l", "d">>,
     <<"D", "e", "m", "i">>,
     <<"D", "e", "m", "i", "B", "o", "l", "d">>,
     <<"B", "l", "a", "c", "k">>,
     <<"H", "e", "a", "v", "y">>,
     <<"E", "x", "t", "r", "a", "B", "o", "l", "d">>,
     <<"M", "e", "d", "i", "u", "m">>,
     <<"L", "i", "g", "h", "t">>,
     <<"U", "l", "t", "r", "a", "L", "i", "g", "h", "t">>,
     <<"T", "h", "i", "n">>,
     <<"R", "o", "m", "a", "n">>}
Styles == {<<>>, <<"I", "t", "a", "l", "i", "c">>, <<"O", "b", "l", "i", "q", "u", "e">>}
Hyphen(str) == IF str = <<>> THEN <<>> ELSE <<"-">> \o str
FontNames ==
    {{}, {<<>>}} \cup
    {{t \o f \o Hyphen(w \o s)} :
        t \in SubsetTags, f \in Families, w \in Weights, s \in Styles}

\* renderTextLayer resolves the font of a run
RenderTextLayerFont ==
    /\ arg.fn = "font" /\ result = {}
    /\ result' = {ResolveFont(arg.value)}
    /\ UNCHANGED <<program, arg>>

(***************************************************************************)
(* The edit route's preprocessing of oldText and newText (pdf.js lines     *)
(* 327-350), on strings as character sequences.                            *)
(***************************************************************************)
Digits == {"0", "1", "2", "3", "4", "5", "6", "7", "8", "9"}
IsLetter(c) ==
    \E i \in DOMAIN UpperCase : UpperCase[i] = c \/ LowerCase[i] = c

\* \w of a regular expression
IsWordChar(c) == c \in Digits \/ IsLetter(c) \/ c = "_"

Ellipsis == <<".", ".", ".">>

\* a text that keeps a trailing ellipsis
KeepEllipsis(text) == text

\* if (text.endsWith('...')) text = text.slice(0, -3), lines 332-337
StripEllipsis(text) ==
    IF Len(text) >= 3 /\ SubSeq(text, Len(text) - 2, Len(text)) = Ellipsis
    THEN SubSeq(text, 1, Len(text) - 3)
    ELSE text

\* \b holds before position i of text (i = Len(text) + 1 is the end)
WordBoundary(text, i) ==
    LET word(k) == k \in DOMAIN text /\ IsWordChar(text[k])
    IN  word(i - 1) # word(i)

\* /\b\d{1,2}-[A-Za-z]{3}-\d{4}\b/ matches at position i with d day digits
DateAt(text, i, d) ==
    /\ i + d + 8 <= Len(text)
    /\ WordBoundary(text, i)
    /\ \A k \in i..(i + d - 1) : text[k] \in Digits
    /\ text[i + d] = "-"
    /\ \A k \in (i + d + 1)..(i + d + 3) : IsLetter(text[k])
    /\ text[i + d + 4] = "-"
    /\ \A k \in (i + d + 5)..(i + d + 8) : text[k] \in Digits
    /\ WordBoundary(text, i + d + 9)

\* text.match(dateRegex), line 341: the matches, as the set of the
\* substrings' first and last positions (no two matches of this expression
\* overlap); null is the empty set
MatchDates(text) ==
    {<<i, i + d + 8>> : i \in DOMAIN text, d \in {1, 2}} \cap
    {m \in (DOMAIN text) \X (DOMAIN text) :
        \E d \in {1, 2} : m[2] = m[1] + d + 8 /\ DateAt(text, m[1], d)}

\* lines 328-350: processedOldText and processedNewText, the arguments of
\* edit_text.py (lines 366-373)
PreprocessEdit(oldText, newText) ==
    LET strippedOld == StripEllipsis(oldText)
        strippedNew == StripEllipsis(newText)
        oldTextDates == MatchDates(strippedOld)
        newTextDates == MatchDates(strippedNew)
        only(ms) == CHOOSE m \in ms : TRUE
    IN  IF Cardinality(oldTextDates) = 1 /\ Cardinality(newTextDates) = 1
        THEN [processedOldText |-> SubSeq(strippedOld, only(oldTextDates)[1],
                                          only(oldTextDates)[2]),
              processedNewText |-> SubSeq(strippedNew, only(newTextDates)[1],
                                          only(newTextDates)[2])]
        ELSE [processedOldText |-> strippedOld, processedNewText |-> strippedNew]

\* the texts of the model: something before, a date or two or none, something
\* after
TextBefore == {<<>>, <<"I", "n", "v", "o", "i", "c", "e", " ", "D", "a", "t", "e", ":", " ">>, <<"x">>, <<"1">>}
TextDates ==
    {<<>>, <<"0", "1", "-", "J", "a", "n", "-", "2", "0", "2", "4">>,
     <<"1", "5", "-", "F", "e", "b", "-", "2", "0", "2", "4">>,
     <<"5", "-", "F", "e", "b", "-", "2", "0", "2", "4">>,
     <<"0", "1", "-", "J", "a", "n", "-", "2", "0", "2", "4", " ", "1", "5", "-", "F", "e", "b", "-", "2", "0", "2", "4">>,
     <<"0", "1", "-", "J", "a", "-", "2", "0", "2", "4">>}
TextAfter == {<<>>, Ellipsis, Ellipsis \o Ellipsis, <<" ", "d", "u", "e">>, <<"5">>}
EditTexts == {b \o d \o a : b \in TextBefore, d \in TextDates, a \in TextAfter}

\* router.post('/:id/edit') preprocesses the texts of a request
EditRoutePreprocess ==
    /\ arg.fn = "edit" /\ result = {}
    /\ result' = {PreprocessEdit(arg.oldText, arg.newText)}
    /\ UNCHANGED <<program, arg>>

\* editPageText of the stateless hook, lines 317-366, up to its first await:
\* the requests it has sent to the backend, the toast it has shown and what it
\* has returned by then
EditPageTextSent(pageNumber, oldText, newText, textIndex) ==
    LET textItem == FindTextItem(pageNumber, oldText, textIndex)
    IN  IF textItem = {}
        THEN [calls    |-> <<>>,                 \* lines 334-337
              toast    |-> {"Cannot find text metadata for editing"},
              returned |-> {FALSE}]
        ELSE [calls    |-> <<"edit">>,           \* line 354
              toast    |-> {},
              returned |-> {}]

\* the texts and indexes handleTextSave is called with
SaveTexts == {"A", "C"}
SaveIndexes == {{}, {0}, {NumPages + 1}}

\* handleTextSave, lines 219-255, calls onTextEdit once and goes on only when
\* it returned true
HandleTextSaveCall ==
    /\ arg.fn = "save" /\ result = {}
    /\ result' = {EditPageTextSent(arg.pageNumber, arg.oldText, arg.newText,
                                   arg.textIndex)}
    /\ UNCHANGED <<program, arg>>

FunctionArgs ==
    {[fn |-> "color", value |-> c] : c \in Colors}
    \cup {[fn |-> "font", value |-> n] : n \in FontNames}
    \cup {[fn |-> "edit", oldText |-> o, newText |-> n] : o, n \in EditTexts}
    \cup {[fn |-> "save", pageNumber |-> p, oldText |-> o, newText |-> "X",
            textIndex |-> i] :
               p \in 1..(NumPages + 1), o \in SaveTexts, i \in SaveIndexes}

FunctionInit ==
    /\ arg \in FunctionArgs
    /\ result = {}
    /\ viewer = "PDFViewer"
    /\ pdfRuns \in {[p \in 1..NumPages |-> RawRuns(<<"A", "B">>)]}
    /\ pages = [p \in 1..NumPages |->
                    [rotation |-> 0, scale |-> DefaultScale, present |-> TRUE]]
    /\ loading = TRUE
    /\ pdfDoc = FALSE
    /\ currentPageNumber = 1
    /\ totalPages = 0
    /\ isEditMode = FALSE
    /\ renders = {}
    /\ renderTasks = {}
    /\ currentRenderTask = {}
    /\ reported = {}
    /\ textLayerItems = <<>>
    /\ editingText = {}
    /\ textEdits = {}
    /\ download = {}
    /\ extractedAt = {}
    /\ textItems = <<>>
    /\ editingItem = {}
    /\ pdfData = UploadPdfData(pdfRuns)
    /\ editedTexts = {}
    /\ requests = {}
    /\ hasChanges = FALSE
    /\ backendCalls = {}
    /\ outputDir = {}
    /\ textData = {}
    /\ blob = {}
    /\ isProcessing = FALSE
    /\ isExtracting = FALSE
    /\ lastExit = "none"
    /\ commitLog = {}
    /\ nUpdates = 0
    /\ lastOp = "mount"
    /\ wasFocused = FALSE

FunctionNext ==
    \/ RenderTextLayerColor
    \/ UploadDocumentColor
    \/ RenderTextLayerFont
    \/ EditRoutePreprocess
    \/ HandleTextSaveCall

FunctionSpec == FunctionInit /\ [][FunctionNext]_vars

-----------------------------------------------------------------------------
(***************************************************************************)
(* Properties.                                                             *)
(***************************************************************************)
\* the Edit Records of the mounted viewer
Records == IF viewer = "PDFViewer" THEN textEdits ELSE editedTexts

\* the item focused in the mounted viewer, as a set of at most one
Focus == IF viewer = "PDFViewer" THEN editingText ELSE editingItem

\* the positions (1-based) in a page's content of the runs extraction keeps
KeptPositions(pageNum) ==
    SelectSeq([k \in 1..Len(pdfRuns[pageNum]) |-> k],
              LAMBDA k : KeepRun(pdfRuns[pageNum][k]))

\* Some item of page pageNum got the identity <<pageNum, i>> from extraction
IsLabel(id) ==
    /\ id[1] \in DOMAIN pdfRuns
    /\ id[2] + 1 \in DOMAIN KeptPositions(id[1])

\* the position (0-based, as forEach counts) of the run extraction labelled id
LabelledRun(id) == KeptPositions(id[1])[id[2] + 1] - 1

\* the text of that run in the uploaded PDF
OriginalText(id) == pdfRuns[id[1]][LabelledRun(id) + 1].str

\* C1: in every exported file, a replacement committed against the item that
\* extraction labelled text-p-i is drawn over that run of page p and over no
\* other run: every draw of page p lands on the run labelled by a record of
\* page p that holds the drawn text, and every record with a non-empty
\* replacement that differs from its run's text is drawn on its run.
C1_ExportJoinsOnExtractionIdentity ==
    \A d \in download : \A p \in DOMAIN d :
        /\ \A k \in DOMAIN d[p].draws :
               \E e \in PageEdits(textEdits, p) :
                   /\ e.id[1] = p /\ IsLabel(e.id)
                   /\ LabelledRun(e.id) = d[p].draws[k].index
                   /\ e.text = d[p].draws[k].text
        /\ \A e \in PageEdits(textEdits, p) :
               (e.id[1] = p /\ IsLabel(e.id) /\ e.text # ""
                    /\ e.text # OriginalText(e.id))
               => \E k \in DOMAIN d[p].draws :
                      /\ d[p].draws[k].index = LabelledRun(e.id)
                      /\ d[p].draws[k].text = e.text

\* C2: every key an edit was committed to has exactly one Edit Record, and
\* the record holds the text of the latest commit to that key.
C2_OneRecordPerKeyHoldsLatest ==
    \A c \in commitLog :
        {e \in Records : e.page = c.page /\ e.id = c.id}
            = {[page |-> c.page, id |-> c.id, text |-> c.text]}

\* two edits were committed to the same key
C2_Witness ==
    \E c \in commitLog : c.count >= 2

\* C3: in every exported file, on a page an edit was drawn on, every item of
\* the page other than the edited ones is still a text run of the exported
\* page, with its text and its position.
C3_OtherItemsSurviveExport ==
    \A d \in download : \A p \in DOMAIN d :
        d[p].draws # <<>> =>
            \A j \in DOMAIN pdfRuns[p] :
                (/\ KeepRun(pdfRuns[p][j])
                 /\ \A k \in DOMAIN d[p].draws : d[p].draws[k].index # j - 1)
                => \E k \in DOMAIN ExportedRuns(d[p]) :
                       /\ ExportedRuns(d[p])[k].str = pdfRuns[p][j].str
                       /\ ExportedRuns(d[p])[k].x = 10 * pdfRuns[p][j].tx

\* C4: two extractions of the same page at the same scale, with no edit of
\* the page between them, give the same ordered list of Text Items (content,
\* identity, position): the list a render in flight is about to install equals
\* the installed list that was extracted from that page at that scale.
C4_ReextractionIdentical ==
    \A t \in renders : \A e \in extractedAt :
        (/\ t.editMode /\ t.page = e.page /\ t.scale = e.scale
         /\ \A c \in commitLog : c.page # t.page /\ c.id[1] # t.page)
        => ExtractTextItems(t.page, t.scale, t.rotation) = textLayerItems

\* C5: a successful edit that was sent with index i changed run i of the
\* addressed page of the PDF and no other run, and is recorded under key i.
C5_EditTargetsIndexedRun ==
    [][\A r \in requests :
          (r \notin requests' /\ lastOp' = "editSucceeded" /\ r.textIndex # {})
          => LET i == CHOOSE i \in r.textIndex : TRUE
             IN  /\ pdfData' = [r.pdf_data EXCEPT ![r.page][i + 1] = r.new_text]
                 /\ [page |-> r.page, id |-> i, text |-> r.new_text]
                        \in editedTexts']_vars

\* the second of two runs with the same text was edited: it changed, the first
\* did not
C5_Witness ==
    /\ lastOp = "editSucceeded"
    /\ pdfRuns[1][1].str = pdfRuns[1][2].str
    /\ \E e \in editedTexts : e.page = 1 /\ e.id = 1 /\ e.text # pdfRuns[1][2].str
                                /\ pdfData[1][2] = e.text
    /\ pdfData[1][1] = pdfRuns[1][1].str

\* C6: Enter and blur on a focused item each record exactly the buffer as the
\* Edit Record of (current page, focused item) and leave no item focused.
C6_ConfirmCommits ==
    [][/\ (viewer = "PDFViewer" /\ lastOp' \in {"blur", "enter"} /\ editingText # {})
          => /\ editingText' = {}
             /\ EditOf(textEdits', currentPageNumber, Focused.id) = Focused.content
       /\ (viewer = "ModernPDFViewer" /\ lastOp' = "blur" /\ editingItem # {})
          => /\ editingItem' = {}
             /\ \E e \in editedTexts' :
                    /\ e.page = currentPageNumber
                    /\ e.id = ModernFocused.index
                    /\ e.text = ModernFocused.text]_vars

\* C7: Escape and the cancel button on a focused item leave no item focused,
\* create or change no Edit Record and send no edit request.
C7_CancelEmitsNothing ==
    [][(lastOp' \in {"escape", "cancelButton"} /\ Focus # {})
          => /\ editingText' = {} /\ editingItem' = {}
             /\ textEdits' = textEdits /\ editedTexts' = editedTexts
             /\ requests' = requests]_vars

CurrentContent(pageNum, id, original) ==
    LET hit == {c \in commitLog : c.page = pageNum /\ c.id = id}
    IN  IF hit = {} THEN original ELSE (CHOOSE c \in hit : TRUE).text

\* the items ModernPDFViewer shows are the items of the current page
ModernItemsAreCurrent ==
    /\ currentPageNumber \in DOMAIN TextData
    /\ DOMAIN textItems = DOMAIN TextData[currentPageNumber]
    /\ \A k \in DOMAIN textItems :
           textItems[k].metadataKey = TextData[currentPageNumber][k].metadataKey

\* C9: a click on an item of the current page seeds the buffer with the item's
\* current content: the latest replacement committed to it, else its original
\* text.
C9_ClickSeedsCurrentContent ==
    lastOp = "click" =>
        /\ \A e \in editingText :
               (e.id[1] = currentPageNumber /\ IsLabel(e.id))
               => e.content = CurrentContent(currentPageNumber, e.id,
                                             OriginalText(e.id))
        /\ \A e \in editingItem :
               ModernItemsAreCurrent
               => e.text = CurrentContent(currentPageNumber, e.index,
                               TextData[currentPageNumber][e.index + 1].text)

\* C10: in every exported file, every Edit Record of an exported page whose
\* replacement differs from its run's original text is drawn on that page,
\* the empty replacement included.
C10_EveryRecordIsExported ==
    \A d \in download : \A e \in textEdits :
        (e.page \in DOMAIN d /\ e.id[1] = e.page /\ IsLabel(e.id)
             /\ e.text # OriginalText(e.id))
        => \E k \in DOMAIN d[e.page].draws : d[e.page].draws[k].text = e.text


\* C11: once an edit has produced an edited file, downloadEditedPDF saves
\* that file and not the uploaded one.
C11_DownloadRetrievesEditedFile ==
    (lastOp = "downloadEditedPDF" /\ \E f \in outputDir : f.name = "id_edited")
    => blob = {f.data : f \in {g \in outputDir : g.name = "id_edited"}}

\* C12: when the subprocess of an edit request exits non-zero, cannot be
\* started or prints output that does not parse, editPageText returns false
\* and the edit is not recorded as applied.
C12_BackendFailureIsSurfaced ==
    [][(lastOp' \in {"editReturnedTrue", "editReturnedFalse"}
          /\ lastExit' \in {"nonzero", "spawn_threw", "unparsable"})
       => /\ lastOp' = "editReturnedFalse"
          /\ editedTexts' = editedTexts
          /\ hasChanges' = hasChanges]_vars

\* C13: a failed editPageText leaves pdfData, hasChanges and every page's
\* editedTexts as they were, and ModernPDFViewer keeps the focused item and
\* its buffer.
C13_FailedEditChangesNothing ==
    [][lastOp' \in {"editFailed", "editReturnedFalse"}
       => /\ pdfData' = pdfData
          /\ hasChanges' = hasChanges
          /\ editedTexts' = editedTexts
          /\ editingItem' = editingItem]_vars

\* an edit failed while its item was focused with a changed buffer
C13_Witness ==
    /\ lastOp = "editFailed"
    /\ \E e \in editingItem :
           e.index + 1 \in DOMAIN textItems /\ e.text # textItems[e.index + 1].text


\* C14: at most one render task is active on the canvas; when a call of
\* renderCurrentPage gets to page.render(), the task started before it has
\* completed or is cancelled by the call; and ModernPDFViewer's
\* currentRenderTask refers to the task that is active on the canvas.
C14_OneRenderTaskAtATime ==
    [][/\ Cardinality({k \in renderTasks' : k.onCanvas}) <= 1
       /\ (lastOp' \in {"renderStart", "renderRefused", "renderSupersede"})
              => \A k \in renderTasks : k.onCanvas => k \notin renderTasks'
       /\ viewer' = "ModernPDFViewer"
              => \A k \in renderTasks' : k.onCanvas => currentRenderTask' = {CallOf(k)}
      ]_vars

\* C15: cancelling never raises and never logs: a call of ModernPDFViewer
\* that cancels the task its ref refers to (a running one, one that has
\* settled, at a new render or at unmount) goes on to its end, the ref is
\* left on the new task or null, and no RenderingCancelledException is passed
\* to console.error.
C15_CancelIsSilent ==
    [][(viewer = "ModernPDFViewer" /\ currentRenderTask # {}
          /\ lastOp' \in {"renderStart", "renderSupersede", "unmount"})
       => /\ reported' = {}
          /\ Cancelled(renderTasks, currentRenderTask) \cap renderTasks' \subseteq
                 {k \in renderTasks' : CallOf(k) \in currentRenderTask'}
          /\ lastOp' = "unmount" => currentRenderTask' = {}
          /\ lastOp' # "unmount" =>
                 \E k \in renderTasks' : currentRenderTask' = {CallOf(k)}]_vars

\* a render was cancelled because a new one superseded it
C15_Witness ==
    lastOp = "renderSupersede" /\ viewer = "ModernPDFViewer"


\* C16: every extraction or edit request that waits for its subprocess can
\* still be answered: from every state with a request in flight, a step that
\* answers the request is possible.
C16_EveryRequestIsAnswered ==
    \A c \in backendCalls :
        ENABLED (\E x \in Exits : HookEditResponded(c, x) \/ HookTextResponded(c, x))


\* the zoom step of either viewer in direction d
ZoomAction(d) ==
    \/ HandleZoom(d)
    \/ d = "in" /\ HandleZoomIn
    \/ d = "out" /\ HandleZoomOut

\* the zoom step in direction d whose result would fall outside the range
OutOfRangeZoom(d) ==
    /\ ZoomAction(d)
    /\ Unclamped(pages[currentPageNumber].scale, d) \notin MinScale..MaxScale

\* C17 as stated: a zoom action whose result would fall outside the range
\* [0.5, 3.0] is rejected: it leaves the page's scale unchanged.
C17_OutOfRangeZoomIsRejected ==
    [][\A d \in {"in", "out"} :
           OutOfRangeZoom(d) =>
               pages'[currentPageNumber].scale = pages[currentPageNumber].scale]_vars

\* C17, amended: a zoom action whose result would fall outside the range
\* [0.5, 3.0] sets the page's scale to the boundary of the range it would
\* have crossed (3.0 zooming in, 0.5 zooming out) and changes nothing else of
\* the page; it is not rejected.
C17_OutOfRangeZoomIsClamped ==
    [][\A d \in {"in", "out"} :
           OutOfRangeZoom(d) =>
               pages' = [pages EXCEPT ![currentPageNumber].scale =
                            IF d = "in" THEN MaxScale ELSE MinScale]]_vars

\* the first zoom of the session brought the page to the lower boundary; no
\* scale of ZoomScales is one step above it, so the step was clamped
C17_Witness ==
    /\ lastOp = "zoom" /\ nUpdates = 1
    /\ pages[currentPageNumber].scale = MinScale
    /\ MinScale + ZoomStep \notin ZoomScales

\* C18: after any sequence of zoom-in and zoom-out actions every page's scale
\* is within [0.5, 3.0].
C18_ScaleStaysInRange ==
    \A p \in DOMAIN pages : pages[p].scale \in MinScale..MaxScale

\* two zoom steps have been taken and the page is at the upper boundary
C18_Witness ==
    /\ lastOp = "zoom" /\ nUpdates >= 2
    /\ pages[currentPageNumber].scale = MaxScale


\* the runs of a page that become Text Items, in order
KeptRuns(pageNum) == SelectSeq(pdfRuns[pageNum], KeepRun)

\* x, y, width and height of the items of a list
Coordinates(items) ==
    [k \in DOMAIN items |->
        <<items[k].x, items[k].y, items[k].width, items[k].height>>]

\* C19: the display y computed for an item is (pageHeightAtScale1 - pdfY -
\* glyphHeight) multiplied by the scale s the page was extracted at, and the
\* display x is pdfX multiplied by s.  Lengths are in tenths and the scale is
\* in tenths, so both sides are taken times DefaultScale.
C19_CoordinatesScaleWithThePage ==
    viewer = "PDFViewer" =>
        \A e \in extractedAt : \A k \in DOMAIN textLayerItems :
            LET run == KeptRuns(e.page)[k]
                pageHeightAtScale1 == ViewportHeight(DefaultScale, e.rotation)
            IN  /\ DefaultScale * textLayerItems[k].y =
                       (pageHeightAtScale1 - 10 * run.ty - 10 * run.height) * e.scale
                /\ DefaultScale * textLayerItems[k].x = 10 * run.tx * e.scale

\* C20: the coordinates (x, y, width, height) of the extracted items of a
\* page are the same for every display rotation: whatever rotation the page
\* had when its items were extracted, they are the coordinates of the
\* unrotated page.
C20_CoordinatesIgnoreRotation ==
    viewer = "PDFViewer" =>
        \A e \in extractedAt :
            Coordinates(textLayerItems) =
                Coordinates(ExtractTextItems(e.page, e.scale, 0))


\* a result of a colour normalisation as the RGB triple it denotes: the
\* rgbValues, or the three bytes of a '#rrggbb' string
RgbOf(r) ==
    IF r.by = "renderTextLayer" THEN r.rgbValues
    ELSE <<Num(0, r.color.digits[1] * 16 + r.color.digits[2], 0),
           Num(0, r.color.digits[3] * 16 + r.color.digits[4], 0),
           Num(0, r.color.digits[5] * 16 + r.color.digits[6], 0)>>

\* the result denotes the RGB triple <<red, green, blue>>
IsRgb(r, red, green, blue) ==
    /\ r.by = "uploadDocument" => r.color.kind = "hex"
    /\ RgbOf(r) = <<Num(0, red, 0), Num(0, green, 0), Num(0, blue, 0)>>

\* the result denotes an RGB triple with every channel in 0..255
IsRgbTriple(r) ==
    /\ r.by = "uploadDocument" => r.color.kind = "hex"
    /\ \A i \in 1..3 : RgbOf(r)[i].hi = 0 /\ RgbOf(r)[i].lo \in 0..255

\* the three source encodings: a grayscale scalar, an RGB triple of
\* fractions, a packed integer
SourceEncodings ==
    {ColorNumber(n) : n \in Fractions \cup PackedColors}
    \cup {ColorArray(<<x, y, z>>) : x, y, z \in Fractions}

\* C21: colour normalisation maps each of the three source encodings to an
\* RGB triple with every channel in 0..255; grayscale 0.5 gives
\* (128,128,128), packed 0xFF0000 gives (255,0,0) and the triple (0,1,0)
\* gives (0,255,0).
C21_ColorsAreNormalized ==
    \A r \in result :
        arg.fn = "color" =>
            /\ arg.value \in SourceEncodings => IsRgbTriple(r)
            /\ arg.value = ColorNumber(Num(0, 0, 1)) => IsRgb(r, 128, 128, 128)
            /\ arg.value = ColorNumber(Packed(255, 0, 0)) => IsRgb(r, 255, 0, 0)
            /\ arg.value = ColorArray(<<Num(0, 0, 0), Num(0, 1, 0), Num(0, 0, 0)>>)
                   => IsRgb(r, 0, 255, 0)


\* the font name as written
FontNamed(str) == [fn |-> "font", value |-> {str}]

\* the name matches no keyword of the resolver once its tag is stripped
NoKeyword(str) ==
    LET lower == ToLowerCase(str)
    IN  \A word \in {KwBlack, KwHeavy, KwExtrabold, KwUltrabold, KwBold, KwSemibold,
                      KwDemi, KwMedium, KwLight, KwThin, KwUltralight, KwItalic,
                      KwOblique, KwArial, KwHelvetica, KwCourier, KwTimes, KwCalibri,
                      KwVerdana, KwTahoma, KwGeorgia} : ~Includes(lower, word)

\* the serif default: the Times family (written out for a run without a font
\* name, which is resolved as 'Times-Roman'), weight normal, style normal
SerifDefault(r) ==
    /\ r.fontFamily \in {"Times, serif",
                         "\"Times New Roman\", Times, \"Liberation Serif\", serif"}
    /\ r.fontWeight = "normal"
    /\ r.fontStyle = "normal"

\* C22: font resolution strips a leading subset tag of six uppercase letters
\* and '+': "ABCDEF+Helvetica-Bold" resolves to the Arial/Helvetica family,
\* bold, normal; "Times-Italic" to the Times family, italic; a name that,
\* its tag stripped, matches no keyword resolves to the serif default with
\* weight normal and style normal.
C22_FontsAreResolved ==
    \A r \in result :
        arg.fn = "font" =>
            /\ arg = FontNamed(<<"A", "B", "C", "D", "E", "F", "+", "H", "e", "l", "v", "e", "t", "i", "c", "a", "-", "B", "o", "l", "d">>) =>
                   r = [fontFamily |-> "Arial, Helvetica, \"Liberation Sans\", sans-serif",
                        fontWeight |-> "bold", fontStyle |-> "normal"]
            /\ arg = FontNamed(<<"T", "i", "m", "e", "s", "-", "I", "t", "a", "l", "i", "c">>) =>
                   /\ r.fontFamily = "\"Times New Roman\", Times, \"Liberation Serif\", serif"
                   /\ r.fontStyle = "italic"
            /\ \A t \in {<<"A", "B", "C", "D", "E", "F", "+">>, <<"T", "H", "I", "N", "A", "B", "+">>} : \A f \in Families :
                   (arg = FontNamed(t \o f) /\ NoKeyword(f)) =>
                       SerifDefault(r)
            /\ \A n \in arg.value :
                   NoKeyword(n) =>
                       SerifDefault(r)

\* a tagged name without a keyword was resolved
C22_Witness ==
    /\ arg = FontNamed(<<"T", "H", "I", "N", "A", "B", "+", "F", "o", "o">>)
    /\ result # {}


\* the weight the keyword mapping gives a stripped, lower-cased name
MappedWeight(lower) ==
    IF Includes(lower, KwBlack) \/ Includes(lower, KwHeavy) THEN "900"
    ELSE IF Includes(lower, KwExtrabold) THEN "800"
    ELSE IF Includes(lower, KwSemibold) \/ Includes(lower, KwDemi) THEN "600"
    ELSE IF Includes(lower, KwMedium) THEN "500"
    ELSE IF Includes(lower, KwLight) THEN "300"
    ELSE IF Includes(lower, KwThin) THEN "200"
    ELSE IF Includes(lower, KwBold) THEN "bold"
    ELSE "normal"

\* C30: for every raw font name, after stripping the subset tag and
\* lower-casing, the resolved weight follows the keyword mapping: 'black' or
\* 'heavy' 900, 'extrabold' 800, 'semibold' or 'demi' 600, 'medium' 500,
\* 'light' 300, 'thin' 200, 'bold' bold, any other name normal.
C30_WeightFollowsTheMapping ==
    \A r \in result :
        arg.fn = "font" =>
            \A n \in arg.value :
                r.fontWeight = MappedWeight(ToLowerCase(StripSubsetTag(n)))


\* the date-shaped substrings of a text: 1-2 digits, '-', three letters, '-',
\* four digits, standing as a word of their own; as <<first, last>>
DateShaped(text) ==
    {m \in (DOMAIN text) \X (DOMAIN text) :
        LET str == SubSeq(text, m[1], m[2])
            day == Len(str) - 9
        IN  /\ day \in {1, 2}
            /\ \A k \in 1..day : str[k] \in Digits
            /\ str[day + 1] = "-" /\ str[day + 5] = "-"
            /\ \A k \in (day + 2)..(day + 4) : IsLetter(str[k])
            /\ \A k \in (day + 6)..(day + 9) : str[k] \in Digits
            /\ (m[1] > 1 => ~IsWordChar(text[m[1] - 1]))
            /\ (m[2] < Len(text) => ~IsWordChar(text[m[2] + 1]))}

\* the text without one trailing '...'
WithoutEllipsis(text) ==
    IF \E head \in {SubSeq(text, 1, k) : k \in 0..Len(text)} : text = head \o Ellipsis
    THEN SubSeq(text, 1, Len(text) - 3)
    ELSE text

RemainingPages == {p \in DOMAIN pages : pages[p].present}

\* C24: after the user deleted a page, the viewer offers the remaining pages
\* only: their number is the page count, the page on display is none of the
\* deleted ones, and an exported PDF consists of exactly the remaining pages.
C24_DeletedPageIsRemoved ==
    (viewer = "PDFViewer" /\ Shown /\ pdfDoc /\ RemainingPages # DOMAIN pages) =>
        /\ totalPages = Cardinality(RemainingPages)
        /\ currentPageNumber \in RemainingPages
        /\ \A d \in download : {d[k].image : k \in DOMAIN d} = RemainingPages


\* C25: loading a different document ends the session of the previous one:
\* when the new document has been loaded, no Edit Record, no focused item and
\* no extracted item of the previous document is left.  (In SessionSpec the
\* document is loaded at the mount and after its replacement only.)
C25_NewDocumentStartsClean ==
    (pdfRuns # FirstDocument /\ lastOp = "loadPDF") =>
        /\ textEdits = {}
        /\ editingText = {}
        /\ textLayerItems = <<>>


\* C26: the result of an extraction that was started for a page the user has
\* left meanwhile is discarded: when the render of page P completes while
\* another page is the current one, the displayed item list stays as it is.
C26_LateExtractionIsDiscarded ==
    [][\A k \in renderTasks :
           (RenderDone(k) /\ k.page # currentPageNumber)
               => textLayerItems' = textLayerItems]_vars

\* the displayed item list is the one extracted from page p at this scale
\* and rotation
Cached(p, scale, rotation) ==
    /\ [page |-> p, scale |-> scale, rotation |-> rotation] \in extractedAt
    /\ textLayerItems = ExtractTextItems(p, scale, rotation)

\* C27: a page is extracted on the first entry into edit mode; a later entry
\* into edit mode on the same page at the same scale reuses the item list and
\* runs no new extraction: while the page has not been updated (zoomed or
\* rotated), no render calls getTextContent for a page whose items are the
\* displayed list already.
C27_ExtractionHappensOnce ==
    [][\A k \in renderTasks :
           (RenderDone(k) /\ k.editMode /\ nUpdates = 0)
               => ~Cached(k.page, k.scale, k.rotation)]_vars

\* the steps that commit an edit: Enter and blur of PDFViewer's input, and the
\* answer to an edit request that ModernPDFViewer or the hook has sent
CommitSteps == {"blur", "enter", "editSucceeded", "editReturnedTrue"}

\* the steps the records must survive
RecordKeepingSteps ==
    {"type", "escape", "cancelButton", "previousPage", "nextPage", "goToPage",
     "zoom", "rotate", "toggleEditMode", "download", "downloadEditedPDF"}

\* C28: the edit records change only when an edit is committed: typing,
\* cancelling, navigating, zooming, rotating, toggling edit mode and exporting
\* leave every record as it is and create none.
C28_RecordsChangeOnlyOnCommit ==
    [][/\ (textEdits' # textEdits \/ editedTexts' # editedTexts)
           => lastOp' \in CommitSteps
       /\ lastOp' \in RecordKeepingSteps
           => (textEdits' = textEdits /\ editedTexts' = editedTexts)]_vars

\* a page is rotated while an edit record exists
C28_Witness ==
    /\ textEdits # {}
    /\ lastOp = "rotate"

\* C29: when the target of an edit does not resolve (no item, or no metadata
\* key, at the given index), the caller re-extracts the page and retries the
\* edit once before it reports the failure.
C29_UnresolvedEditIsRetriedOnce ==
    (/\ arg.fn = "save" /\ result # {}
     /\ FindTextItem(arg.pageNumber, arg.oldText, arg.textIndex) = {})
        => \A r \in result :
               Cardinality({k \in DOMAIN r.calls : r.calls[k] = "extract"}) = 1

\* C31: for each edit applied at export, the white rectangle covers the run's
\* bounding box expanded by one unit on every side, and the replacement text
\* is drawn at the run's baseline position (transform[4], transform[5]) in
\* the bottom-left-origin coordinates of the output page.
C31_EditIsDrawnAtTheBaseline ==
    lastOp = "download" =>
        \A doc \in download : \A p \in DOMAIN doc : \A k \in DOMAIN doc[p].draws :
            LET d    == doc[p].draws[k]
                item == pdfRuns[doc[p].pageNum][d.index + 1]
            IN  /\ d.x = 10 * item.tx
                /\ d.y = 10 * item.ty
                /\ d.rect = [x      |-> 10 * item.tx - 10,
                             y      |-> 10 * item.ty - 10,
                             width  |-> 10 * item.width + 20,
                             height |-> 10 * item.height + 20]

\* C32: zooming or rotating the current page changes only that page's scale
\* or rotation: neither the handler nor the reload of the document it causes
\* changes the current page number, the edit mode, the focused item or the
\* edit records; the viewer does not jump back to page 1.
C32_ZoomAndRotateKeepTheView ==
    [][(\/ lastOp' \in {"zoom", "rotate"}
        \/ (lastOp \in {"zoom", "rotate"} /\ lastOp' = "loadPDF"))
           => /\ currentPageNumber' = currentPageNumber
              /\ isEditMode' = isEditMode
              /\ Focus' = Focus
              /\ Records' = Records]_vars

\* C33: whenever a PDF is loaded, the current page number lies between 1 and
\* the number of pages, after any sequence of previous-page, next-page,
\* go-to-page and delete-page actions.
C33_CurrentPageIsInRange ==
    (viewer = "PDFViewer" /\ pdfDoc)
        => (1 <= currentPageNumber /\ currentPageNumber <= totalPages)

\* C34: an item is focused only while edit mode is on: in either viewer a
\* focused item (editingText, editingItem) implies isEditMode.
C34_FocusOnlyInEditMode ==
    (viewer \in {"PDFViewer", "ModernPDFViewer"} /\ Focus # {}) => isEditMode

\* an item is focused and its buffer has been typed into
C34_Witness ==
    /\ Focus # {}
    /\ lastOp = "type"

\* C35: every edit record is stored under the page its item was extracted
\* from: a key of textEdits[p] names an item of page p (text-p-i).
C35_RecordsBelongToTheirPage ==
    \A e \in textEdits : e.id[1] = e.page

\* the calls of the hook that have not returned: editPageText, loadPageText
InFlight(route) == {c \in backendCalls : c.route = route}

\* C36: the busy flags track the work in flight under any overlap of calls:
\* isProcessing is true whenever an editPageText or downloadEditedPDF call is
\* in flight and false when none is, and isExtracting likewise for
\* loadPageText.
C36_BusyFlagsTrackCalls ==
    HookMounted =>
        /\ isProcessing = (InFlight("edit") # {})
        /\ isExtracting = (InFlight("text") # {})

\* C37: when two edits of different items overlap and both succeed, neither
\* is lost: the success of an edit leaves the replacement of every other item
\* in pdfData and in the viewer's item list as it is, and both edits are
\* recorded in editedTexts.
C37_OverlappingEditsAreKept ==
    [][\A r \in requests :
           EditSucceeded(r) =>
               /\ \A p \in DOMAIN pdfData : \A k \in DOMAIN pdfData[p] :
                      <<p, k>> # r.metadata_key => pdfData'[p][k] = pdfData[p][k]
               /\ \A k \in DOMAIN textItems \cap DOMAIN textItems' :
                      k # r.index + 1 => textItems'[k].text = textItems[k].text
               /\ \A e \in editedTexts :
                      (e.page # r.page \/ e.id # EditedTextsKey(r.textIndex))
                          => e \in editedTexts']_vars

\* C38: while an item is focused, a click on that same item (inside its input
\* or on its confirm button included) leaves the content of the edit buffer
\* unchanged; only typing changes the buffer.
C38_ClickKeepsTheBuffer ==
    [][lastOp' \in {"click", "saveButton"} =>
           /\ \A e \in editingText : \A f \in editingText' :
                  e.id = f.id => f.content = e.content
           /\ \A e \in editingItem : \A f \in editingItem' :
                  e.index = f.index => f.text = e.text]_vars

=============================================================================
